---------------------------- MODULE Spec2Model ----------------------------
(***************************************************************************)
(* Model of the uptime-kuma-agent reconciliation and merge engine.         *)
(*                                                                         *)
(* Go strings the code inspects character by character (monitor and group  *)
(* names, metric kinds, filesystems, tokens) are sequences of one-character*)
(* strings; strings that are only compared or copied (type, field, URL,    *)
(* descriptions, notification names) are TLA+ strings.  A *string is a     *)
(* record [isNil, val]; a []int64 is a record [isNil, elems], because      *)
(* reflect.DeepEqual tells a nil slice from an empty one.                  *)
(***************************************************************************)
EXTENDS Integers, Sequences, FiniteSets, TLC

VARIABLES
    disk,                   \* the configuration directory: [base, frags]
    remote,                 \* the monitors of the remote service, indexed by id
    emptyIDsNil,            \* client library: an empty notification list decodes to nil
    cfg,                    \* the in-memory configuration of the current run
    pc,                     \* position of the current run
    idx,                    \* loop index of the current list
    existingByName,         \* snapshot lookup map, name -> id
    existingByNameAndGroup, \* snapshot lookup map, <<name, parent>> -> id
    groupNameToID,          \* group name -> id
    configUpdated,          \* the run's dirty flag
    calls,                  \* create/update calls the current run issued, in order
    steps,                  \* per list entry the current run has reconciled: what it matched
    runs,                   \* number of runs started
    fails,                  \* number of injected remote/persistence failures
    prev,                   \* how the previous run ended, what it created, what it left (history)
    telegrafDir,            \* the drop-in directory: file name -> content
    derive,                 \* locals of the drop-in derivation in progress
    err,                    \* the error ProvisionKumaMonitor returned
    peer,                   \* the locals of a second agent process, while the other one steps
    notifications           \* the notification list of the remote service: name and id

vars == <<disk, remote, emptyIDsNil, cfg, pc, idx, existingByName,
          existingByNameAndGroup, groupNameToID, configUpdated, calls,
          steps, runs, fails, prev, telegrafDir, derive, err, peer,
          notifications>>

-----------------------------------------------------------------------------
(* Bounds of the model *)

MaxRuns == 2
MaxFails == 1
MaxFrags == 2

-----------------------------------------------------------------------------
(* Go values *)

NilStr == [isNil |-> TRUE, val |-> ""]
Ptr(s) == [isNil |-> FALSE, val |-> s]

NilSlice == [isNil |-> TRUE, elems |-> <<>>]
EmptySlice == [isNil |-> FALSE, elems |-> <<>>]
SliceOf(s) == [isNil |-> FALSE, elems |-> s]

\* reflect.DeepEqual on two []int64
DeepEqual(a, b) == a.isNil = b.isNil /\ a.elems = b.elems

Range(s) == {s[i] : i \in DOMAIN s}

UpperCase == <<"A","B","C","D","E","F","G","H","I","J","K","L","M",
               "N","O","P","Q","R","S","T","U","V","W","X","Y","Z">>
LowerCase == <<"a","b","c","d","e","f","g","h","i","j","k","l","m",
               "n","o","p","q","r","s","t","u","v","w","x","y","z">>

ToLowerCh(c) ==
    IF \E i \in DOMAIN UpperCase : UpperCase[i] = c
    THEN LowerCase[CHOOSE i \in DOMAIN UpperCase : UpperCase[i] = c]
    ELSE c

\* strings.ToLower
ToLower(s) == [i \in DOMAIN s |-> ToLowerCh(s[i])]

\* strings.Contains
Contains(s, sub) ==
    \E i \in 0..(Len(s) - Len(sub)) : SubSeq(s, i + 1, i + Len(sub)) = sub

\* strings.HasPrefix, strings.HasSuffix
HasPrefix(s, p) == Len(s) >= Len(p) /\ SubSeq(s, 1, Len(p)) = p
HasSuffix(s, p) == Len(s) >= Len(p) /\ SubSeq(s, Len(s) - Len(p) + 1, Len(s)) = p

\* strings.ReplaceAll for one-character old and new
ReplaceAll(s, old, new) == [i \in DOMAIN s |-> IF s[i] = old THEN new ELSE s[i]]

\* strings.Trim(s, cutset): leading and trailing characters of the cutset removed
Trim(s, cutset) ==
    LET keep == {i \in DOMAIN s : s[i] \notin cutset}
    IN  IF keep = {} THEN <<>>
        ELSE SubSeq(s, CHOOSE i \in keep : \A j \in keep : i <= j,
                       CHOOSE i \in keep : \A j \in keep : i >= j)

\* strings.TrimSpace
TrimSpace(s) == Trim(s, {" ", "\t", "\n"})

Digits == <<"0","1","2","3","4","5","6","7","8","9">>

\* the characters of the model in byte order
ByteOrder ==
    <<"\t", "\n", " ", "!", "%", "'", "-", ".", "/">> \o Digits \o UpperCase
    \o <<"_">> \o LowerCase \o <<"|">>

Byte(c) == CHOOSE i \in DOMAIN ByteOrder : ByteOrder[i] = c

\* s < t as Go compares strings: byte by byte, a proper prefix first
StringLess(s, t) ==
    \E k \in 1..(Len(t)) :
        /\ k <= Len(s) + 1
        /\ SubSeq(s, 1, k - 1) = SubSeq(t, 1, k - 1)
        /\ (k = Len(s) + 1 \/ Byte(s[k]) < Byte(t[k]))

\* sort.Strings
RECURSIVE SortStrings(_)
SortStrings(list) ==
    IF list = <<>> THEN <<>>
    ELSE LET least == CHOOSE i \in DOMAIN list :
                          \A j \in DOMAIN list : ~StringLess(list[j], list[i])
         IN  <<list[least]>>
             \o SortStrings([k \in 1..(Len(list) - 1) |->
                                IF k < least THEN list[k] ELSE list[k + 1]])

HexDigits == <<"0","1","2","3","4","5","6","7","8","9","a","b","c","d","e","f">>

\* hex.EncodeToString: two lower-case hex digits per byte
HexEncode(bytes) ==
    [i \in 1..(2 * Len(bytes)) |->
        IF i % 2 = 1 THEN HexDigits[(bytes[(i + 1) \div 2] \div 16) + 1]
        ELSE HexDigits[(bytes[i \div 2] % 16) + 1]]

TokenBytes == 16

\* rand.Read outcomes the model draws from
RandomBytes == {[i \in 1..TokenBytes |-> b] : b \in {0, 171}}

\* GeneratePushToken
GeneratePushToken(bytes) == HexEncode(bytes)

\* invalidChars: [^a-zA-Z0-9_-]
InvalidChar(c) ==
    c \notin Range(LowerCase) \cup Range(UpperCase) \cup Range(Digits) \cup {"_", "-"}

\* regexp ReplaceAllString(name, "-") for a pattern that matches maximal runs
\* of the characters marked in bad (bad[k] says whether s[k] matches): each
\* run becomes one hyphen
RECURSIVE ReplaceRuns(_, _, _)
ReplaceRuns(s, bad, i) ==
    IF i > Len(s) THEN <<>>
    ELSE IF ~bad[i] THEN <<s[i]>> \o ReplaceRuns(s, bad, i + 1)
    ELSE IF i > 1 /\ bad[i - 1] THEN ReplaceRuns(s, bad, i + 1)
    ELSE <<"-">> \o ReplaceRuns(s, bad, i + 1)

IsHyphen(c) == c = "-"

MaxFilename == 50

\* SanitizeFilename
SanitizeFilename(name) ==
    LET lower == ToLower(name)
        replaced == ReplaceRuns(lower, [k \in DOMAIN lower |-> InvalidChar(lower[k])], 1)
        collapsed == ReplaceRuns(replaced, [k \in DOMAIN replaced |-> IsHyphen(replaced[k])], 1)
        truncated == IF Len(collapsed) > MaxFilename
                     THEN SubSeq(collapsed, 1, MaxFilename) ELSE collapsed
        trimmed == Trim(truncated, {"-"})
    IN  IF trimmed = <<>> THEN <<"m","o","n","i","t","o","r">> ELSE trimmed

-----------------------------------------------------------------------------
(* Names and other literals used to build configurations and remote states *)

NameG == <<"G">>
NameH == <<"H">>
NameCPU == <<"C","P","U">>
NameWeb == <<"w","e","b">>

MetricCPU == <<"c","p","u">>
MetricMem == <<"m","e","m">>
MetricDisk == <<"d","i","s","k">>
MetricDockerCPU ==
    <<"d","o","c","k","e","r","_","c","o","n","t","a","i","n","e","r","_","c","p","u">>
FsRoot == <<"/">>
FsData == <<"/","m","n","t","/","d","a","t","a","/","u","p","t","i","m","e","-",
            "k","u","m","a","-","t","e","s","t">>

TokenA == <<"a","b","c","1","2","3">>
TokenB == <<"f","f","0","0">>

\* the notification list of the remote service in the runs that do not vary it
Notifications == << [Name |-> "n1", ID |-> 1], [Name |-> "n2", ID |-> 2] >>

-----------------------------------------------------------------------------
(* internal/config *)

MonitorConfig(type, name, group) ==
    [Type |-> type, Name |-> name, Group |-> group, Description |-> NilStr,
     NotificationNames |-> <<>>, URL |-> "", Threshold |-> 0, Metric |-> <<>>,
     Field |-> "", Filesystem |-> <<>>, ContainerName |-> "", PushToken |-> <<>>]

GroupConfig(name) ==
    [Name |-> name, Description |-> NilStr, NotificationNames |-> <<>>]

EmptyConfig ==
    [UptimeKumaURL |-> "", Username |-> "", Password |-> "",
     Groups |-> <<>>, Interval |-> 0, MaxRetries |-> 0,
     GlobalThresholds |-> [CPU |-> 0, RAM |-> 0, Disk |-> 0],
     Agent |-> [UseOutputsDiscard |-> "nil", DockerImage |-> ""],
     PushMonitors |-> <<>>, HTTPMonitors |-> <<>>, Monitors |-> <<>>]

\* key := m.Name + "|" + m.Group
MonitorKey(m) == m.Name \o <<"|">> \o m.Group

\* the loop "if !seen[key] { append; seen[key] = true }": the indexes of keys
\* that are appended, given the keys already seen
RECURSIVE KeepIdx(_, _, _)
KeepIdx(seen, keys, i) ==
    IF i > Len(keys) THEN <<>>
    ELSE IF keys[i] \in seen THEN KeepIdx(seen, keys, i + 1)
         ELSE <<i>> \o KeepIdx(seen \cup {keys[i]}, keys, i + 1)

Pick(list, is) == [k \in 1..Len(is) |-> list[is[k]]]

MergeGroups(base, add) ==
    LET seen == {base[i].Name : i \in DOMAIN base}
        keys == [i \in DOMAIN add |-> add[i].Name]
    IN  base \o Pick(add, KeepIdx(seen, keys, 1))

\* a merge that appends every entry of the later file
MergeAppendAll(base, add) == base \o add

MergeByNameAndGroup(base, add) ==
    LET seen == {MonitorKey(base[i]) : i \in DOMAIN base}
        keys == [i \in DOMAIN add |-> MonitorKey(add[i])]
    IN  base \o Pick(add, KeepIdx(seen, keys, 1))

MergeByName(base, add) ==
    LET seen == {base[i].Name : i \in DOMAIN base}
        keys == [i \in DOMAIN add |-> add[i].Name]
    IN  base \o Pick(add, KeepIdx(seen, keys, 1))

\* the scalar part of mergeConfigs ("last wins")
MergeScalarsAlways(base, add) ==
    [base EXCEPT
        !.UptimeKumaURL = add.UptimeKumaURL,
        !.Username = add.Username,
        !.Password = add.Password,
        !.Interval = add.Interval,
        !.MaxRetries = add.MaxRetries,
        !.Agent = add.Agent,
        !.GlobalThresholds = add.GlobalThresholds]
MergeScalars(base, add) ==
    [base EXCEPT
        !.UptimeKumaURL = IF add.UptimeKumaURL # "" THEN add.UptimeKumaURL ELSE @,
        !.Username = IF add.Username # "" THEN add.Username ELSE @,
        !.Password = IF add.Password # "" THEN add.Password ELSE @,
        !.Interval = IF add.Interval > 0 THEN add.Interval ELSE @,
        !.MaxRetries = IF add.MaxRetries > 0 THEN add.MaxRetries ELSE @,
        !.Agent.UseOutputsDiscard =
            IF add.Agent.UseOutputsDiscard # "nil" THEN add.Agent.UseOutputsDiscard ELSE @,
        !.Agent.DockerImage =
            IF add.Agent.DockerImage # "" THEN add.Agent.DockerImage ELSE @,
        !.GlobalThresholds.CPU =
            IF add.GlobalThresholds.CPU > 0 THEN add.GlobalThresholds.CPU ELSE @,
        !.GlobalThresholds.RAM =
            IF add.GlobalThresholds.RAM > 0 THEN add.GlobalThresholds.RAM ELSE @,
        !.GlobalThresholds.Disk =
            IF add.GlobalThresholds.Disk > 0 THEN add.GlobalThresholds.Disk ELSE @]

mergeConfigs(base, add) ==
    [MergeScalars(base, add) EXCEPT
        !.Groups = MergeGroups(base.Groups, add.Groups),
        !.PushMonitors = MergeByNameAndGroup(base.PushMonitors, add.PushMonitors),
        !.HTTPMonitors = MergeByNameAndGroup(base.HTTPMonitors, add.HTTPMonitors),
        !.Monitors = MergeByName(base.Monitors, add.Monitors)]

\* LoadMergedConfig: the base file, then every fragment in sorted order
RECURSIVE FoldMerge(_, _, _)
FoldMerge(acc, frags, i) ==
    IF i > Len(frags) THEN acc ELSE FoldMerge(mergeConfigs(acc, frags[i]), frags, i + 1)

LoadMergedConfig(d) == FoldMerge(d.base, d.frags, 1)

\* Config.deduplicateMonitors
deduplicateMonitors(c) ==
    [c EXCEPT
        !.PushMonitors =
            Pick(@, KeepIdx({}, [i \in DOMAIN @ |-> MonitorKey(@[i])], 1)),
        !.HTTPMonitors =
            Pick(@, KeepIdx({}, [i \in DOMAIN @ |-> MonitorKey(@[i])], 1)),
        !.Monitors =
            Pick(@, KeepIdx({}, [i \in DOMAIN @ |-> @[i].Name], 1))]

\* a resolver that fills the field only once the metric kind is set
ResolveKindThenField(m) ==
    LET lowerName == ToLower(m.Name) IN
    IF m.Metric # <<>>
    THEN [m EXCEPT !.Field = IF @ = "" /\ m.Metric = MetricCPU THEN "usage_user" ELSE @]
    ELSE IF Contains(lowerName, <<"c","p","u">>) THEN [m EXCEPT !.Metric = MetricCPU]
    ELSE m

\* a resolver that sets the field and the filesystem whenever it infers the kind
ResolveKindOverwrite(m) ==
    LET lowerName == ToLower(m.Name) IN
    IF m.Metric # <<>> THEN m
    ELSE IF Contains(lowerName, <<"c","p","u">>)
    THEN [m EXCEPT !.Metric = MetricCPU, !.Field = "usage_user"]
    ELSE IF Contains(lowerName, <<"d","i","s","k">>)
    THEN [m EXCEPT !.Metric = MetricDisk, !.Field = "used_percent",
                   !.Filesystem = FsRoot]
    ELSE m

\* MonitorConfig.ResolveMetrics: the metric kind, field and filesystem cues
ResolveKind(m) ==
    LET lowerName == ToLower(m.Name) IN
    IF m.Metric # <<>> THEN m
    ELSE IF Contains(lowerName, <<"c","p","u">>)
    THEN [m EXCEPT !.Metric = MetricCPU,
                   !.Field = IF @ = "" THEN "usage_user" ELSE @]
    ELSE IF Contains(lowerName, <<"r","a","m">>) \/ Contains(lowerName, <<"m","e","m">>)
    THEN [m EXCEPT !.Metric = MetricMem,
                   !.Field = IF @ = "" THEN "used_percent" ELSE @]
    ELSE IF Contains(lowerName, <<"d","i","s","k">>)
    THEN [m EXCEPT !.Metric = MetricDisk,
                   !.Field = IF @ = "" THEN "used_percent" ELSE @,
                   !.Filesystem =
                       IF @ # <<>> THEN @
                       ELSE IF Contains(lowerName, <<"r","o","o","t">>) THEN FsRoot
                       ELSE IF Contains(lowerName, <<"d","a","t","a">>) THEN FsData
                       ELSE @]
    ELSE m

DefaultThresholdCPU == 90
DefaultThresholdRAM == 90
DefaultThresholdDisk == 85
DefaultThresholdOther == 90

\* MonitorConfig.ResolveMetrics: the threshold default
ResolveThreshold(m, c) ==
    IF m.Threshold # 0 THEN m
    ELSE [m EXCEPT !.Threshold =
            IF m.Metric \in {MetricCPU, MetricDockerCPU}
            THEN (IF c.GlobalThresholds.CPU > 0 THEN c.GlobalThresholds.CPU
                  ELSE DefaultThresholdCPU)
            ELSE IF m.Metric = MetricMem
            THEN (IF c.GlobalThresholds.RAM > 0 THEN c.GlobalThresholds.RAM
                  ELSE DefaultThresholdRAM)
            ELSE IF m.Metric = MetricDisk
            THEN (IF c.GlobalThresholds.Disk > 0 THEN c.GlobalThresholds.Disk
                  ELSE DefaultThresholdDisk)
            ELSE DefaultThresholdOther]

ResolveMetrics(m, c) == ResolveThreshold(ResolveKind(m), c)

\* Config.GetAllMonitors: push, then http (type set), then the legacy list
GetAllMonitors(c) ==
    [i \in DOMAIN c.PushMonitors |-> [c.PushMonitors[i] EXCEPT !.Type = "push"]]
    \o [i \in DOMAIN c.HTTPMonitors |-> [c.HTTPMonitors[i] EXCEPT !.Type = "http"]]
    \o c.Monitors

\* Config.ResolveAllMetrics: every entry resolved and copied back to its list
ResolveAllMetrics(c) ==
    LET all == GetAllMonitors(c)
        resolved == [i \in DOMAIN all |-> ResolveMetrics(all[i], c)]
        np == Len(c.PushMonitors)
        nh == Len(c.HTTPMonitors)
    IN  [c EXCEPT
            !.PushMonitors = [i \in DOMAIN @ |-> resolved[i]],
            !.HTTPMonitors = [i \in DOMAIN @ |-> resolved[np + i]],
            !.Monitors = [i \in DOMAIN @ |-> resolved[np + nh + i]]]

-----------------------------------------------------------------------------
(* The remote service, as the client library shows it.                     *)
(* An entity is [Name, Kind, Parent, Description, NotificationIDs,         *)
(* PushToken]; its id is its index in remote; Parent = 0 is "no parent".   *)
(* The service keeps the notification ids and the token it is sent.  What  *)
(* the library decodes an empty notification list to (nil or empty) and    *)
(* the order of GetMonitors are not fixed by this repository: both are     *)
(* left open.                                                              *)

Entity(name, kind, parent, desc, ids, token) ==
    [Name |-> name, Kind |-> kind, Parent |-> parent, Description |-> desc,
     NotificationIDs |-> ids, PushToken |-> token]

IDs == DOMAIN remote

\* Base.NotificationIDs as GetMonitorAs decodes it
ReadIDs(ids) ==
    IF ids = <<>> THEN (IF emptyIDsNil THEN NilSlice ELSE EmptySlice) ELSE SliceOf(ids)

\* ResolveNotificationIDs: nameToID (a later notification of the same name
\* wins), then the ids of the names found, in the order of the names
NotificationID(name) ==
    notifications[CHOOSE i \in DOMAIN notifications :
        /\ notifications[i].Name = name
        /\ \A j \in DOMAIN notifications : notifications[j].Name = name => j <= i].ID

NotificationFound(name) == \E i \in DOMAIN notifications : notifications[i].Name = name

\* a resolution that answers an id for every name, 0 for a name not found
ResolveNotificationIDsAll(names) ==
    IF Len(names) = 0 THEN NilSlice
    ELSE SliceOf([k \in DOMAIN names |->
             IF NotificationFound(names[k]) THEN NotificationID(names[k]) ELSE 0])

ResolveNotificationIDs(names) ==
    IF Len(names) = 0 THEN NilSlice
    ELSE LET found == SelectSeq(names, NotificationFound)
         IN  IF found = <<>> THEN NilSlice
             ELSE SliceOf([k \in DOMAIN found |-> NotificationID(found[k])])

\* "ids := []int64{}; if len(names) > 0 { ids = ResolveNotificationIDs(names) }"
NotificationIDsOrEmpty(names) ==
    IF Len(names) > 0 THEN ResolveNotificationIDs(names) ELSE EmptySlice

\* GetMonitors lists the monitors in an order that is the library's: of the
\* monitors that share a key, or a name, any one may be the one listed last
SnapshotKeys == {<<remote[i].Name, remote[i].Parent>> : i \in IDs}
SnapshotNames == {remote[i].Name : i \in IDs}

\* the maps that give every key of D one of the ids C[key] allows
RECURSIVE ChoiceFunctions(_, _)
ChoiceFunctions(D, C) ==
    IF D = {} THEN {<<>>}
    ELSE LET d == CHOOSE x \in D : TRUE
         IN  {f @@ (d :> v) : f \in ChoiceFunctions(D \ {d}, C), v \in C[d]}

\* existingByNameAndGroup["name|parent"] = m: the last one of a key stays
SnapshotByNameAndGroup ==
    ChoiceFunctions(SnapshotKeys,
        [k \in SnapshotKeys |->
            {i \in IDs : <<remote[i].Name, remote[i].Parent>> = k}])

\* existingByName[m.Name] = m: the last one of a name stays, and it is the
\* last one of its key as well
SnapshotByName(byKey) ==
    ChoiceFunctions(SnapshotNames,
        [n \in SnapshotNames |->
            {byKey[k] : k \in {kk \in SnapshotKeys : kk[1] = n}}])

-----------------------------------------------------------------------------
(* internal/provision *)

\* the description test of the group update
GroupDescriptionDiffers(cur, want) ==
    \/ cur.isNil /\ ~want.isNil
    \/ ~cur.isNil /\ ~want.isNil /\ cur.val # want.val
    \/ ~cur.isNil /\ want.isNil

\* the description test of UpdateMonitorBase
MonitorDescriptionDiffers(cur, want) ==
    cur.isNil \/ (~want.isNil /\ cur.val # want.val)

\* UpdateMonitorBase: targetIDs
TargetIDs(mcfg, groupNotificationIDs) ==
    IF Len(mcfg.NotificationNames) > 0
    THEN ResolveNotificationIDs(mcfg.NotificationNames)
    ELSE groupNotificationIDs

\* the token UpdateMonitor is sent: PushDetails of the push struct as it was
\* fetched; the HTTP struct has none
SentTokenLocal(e, mcfg) == mcfg.PushToken
SentToken(e, mcfg) == IF mcfg.Type = "push" THEN e.PushToken ELSE <<>>

\* UpdateMonitorBase after a successful fetch of entity e: whether an update
\* is sent, and the entity it sends
UpdateMonitorBase(e, mcfg, groupNotificationIDs) ==
    LET target == TargetIDs(mcfg, groupNotificationIDs)
        descCh == MonitorDescriptionDiffers(e.Description, mcfg.Description)
        idsCh == ~DeepEqual(ReadIDs(e.NotificationIDs), target)
    IN  [updated |-> mcfg.Type \in {"push", "http"} /\ (descCh \/ idsCh),
         entity |-> [e EXCEPT !.Description = IF descCh THEN mcfg.Description ELSE @,
                              !.NotificationIDs = IF idsCh THEN target.elems ELSE @,
                              !.PushToken = IF mcfg.Type = "push"
                                            THEN SentToken(e, mcfg) ELSE @]]

\* the group update after a successful fetch of entity e
UpdateGroup(e, gcfg, groupNotificationIDs) ==
    LET descCh == GroupDescriptionDiffers(e.Description, gcfg.Description)
        idsCh == ~DeepEqual(ReadIDs(e.NotificationIDs), groupNotificationIDs)
    IN  [updated |-> descCh \/ idsCh,
         entity |-> [e EXCEPT !.Description = IF descCh THEN gcfg.Description ELSE @,
                              !.NotificationIDs =
                                  IF idsCh THEN groupNotificationIDs.elems ELSE @]]

\* "if push.PushDetails.PushToken != "" && mcfg.PushToken != push...PushToken"
TokenDiffers(local, remoteToken) == remoteToken # <<>> /\ local # remoteToken

AdoptTokenNever(local, remoteToken) == local
AdoptToken(local, remoteToken) ==
    IF TokenDiffers(local, remoteToken) THEN remoteToken ELSE local

\* the lookup of a push or http entry: 0 when there is no match
LookupDeclaredOnly(m) ==
    IF m.Group # <<>>
    THEN (IF m.Group \in DOMAIN groupNameToID
             /\ <<m.Name, groupNameToID[m.Group]>> \in DOMAIN existingByNameAndGroup
          THEN existingByNameAndGroup[<<m.Name, groupNameToID[m.Group]>>] ELSE 0)
    ELSE (IF m.Name \in DOMAIN existingByName THEN existingByName[m.Name] ELSE 0)
LookupByNameOnly(m) ==
    IF m.Name \in DOMAIN existingByName THEN existingByName[m.Name] ELSE 0
\* a lookup that asks the remote service again instead of the snapshot
LookupFresh(m) ==
    LET hits == {id \in DOMAIN remote :
                    /\ remote[id].Name = m.Name
                    /\ (m.Group # <<>> /\ m.Group \in DOMAIN groupNameToID)
                          => remote[id].Parent = groupNameToID[m.Group]}
    IN  IF hits = {} THEN 0 ELSE CHOOSE id \in hits : \A o \in hits : id <= o
LookupGroupedNoParent(m) ==
    IF m.Group # <<>> /\ m.Group \in DOMAIN groupNameToID
    THEN (IF <<m.Name, 0>> \in DOMAIN existingByNameAndGroup
          THEN existingByNameAndGroup[<<m.Name, 0>>] ELSE 0)
    ELSE (IF m.Name \in DOMAIN existingByName THEN existingByName[m.Name] ELSE 0)
LookupGrouped(m) ==
    IF m.Group # <<>>
    THEN IF m.Group \in DOMAIN groupNameToID
         THEN (IF <<m.Name, groupNameToID[m.Group]>> \in DOMAIN existingByNameAndGroup
               THEN existingByNameAndGroup[<<m.Name, groupNameToID[m.Group]>>]
               ELSE 0)
         ELSE (IF m.Name \in DOMAIN existingByName THEN existingByName[m.Name] ELSE 0)
    ELSE (IF m.Name \in DOMAIN existingByName THEN existingByName[m.Name] ELSE 0)

\* the lookup of a legacy entry
LookupLegacy(m) ==
    IF m.Name \in DOMAIN existingByName THEN existingByName[m.Name] ELSE 0

FirstGroupParent(c) ==
    IF Len(c.Groups) > 0 /\ c.Groups[1].Name \in DOMAIN groupNameToID
    THEN groupNameToID[c.Groups[1].Name] ELSE 0

\* "Determine parent group ID" of a push or http entry
ParentNever(m, c) == 0
ParentAlwaysFirst(m, c) == FirstGroupParent(c)
ParentOnCreate(m, c) ==
    IF m.Group # <<>>
    THEN (IF m.Group \in DOMAIN groupNameToID THEN groupNameToID[m.Group] ELSE 0)
    ELSE FirstGroupParent(c)

\* "Legacy monitors default to first group"
LegacyParentOnCreate(m, c) == FirstGroupParent(c)

-----------------------------------------------------------------------------
(* Position of a run in ProvisionKumaMonitor: the group loop, the three    *)
(* monitor loops, the final save.                                          *)

PhasesHTTPFirst == <<"groups", "http", "push", "legacy">>
Phases == <<"groups", "push", "http", "legacy">>

ListOf(c, phase) ==
    CASE phase = "groups" -> c.Groups
      [] phase = "push" -> c.PushMonitors
      [] phase = "http" -> c.HTTPMonitors
      [] phase = "legacy" -> c.Monitors
      [] OTHER -> <<>>

PhaseNo(phase) == CHOOSE k \in DOMAIN Phases : Phases[k] = phase

RECURSIVE FirstPhase(_, _)
FirstPhase(c, k) ==
    IF k > Len(Phases) THEN "save"
    ELSE IF Len(ListOf(c, Phases[k])) > 0 THEN Phases[k]
    ELSE FirstPhase(c, k + 1)

\* the position after entry i of the list of a phase
After(c, phase, i) ==
    IF i < Len(ListOf(c, phase)) THEN <<phase, i + 1>>
    ELSE <<FirstPhase(c, PhaseNo(phase) + 1), 1>>

Running == pc \in {"groups", "push", "http", "legacy", "save"}

\* "missing url": an http monitor about to be created has no URL
MissingURLNever(m) == FALSE
MissingURL(m) == m.URL = "" /\ m.Type = "http"

\* the default case of the legacy type switch
UnsupportedTypeNever(m) == FALSE
UnsupportedType(m) == m.Type \notin {"push", "http"}

\* a create or update call: what was sent, whether it succeeded, the list
\* entry it was issued for, and (an update) the entity as it was fetched
Call(op, kind, name, id, parent, token, ok, src, was) ==
    [op |-> op, kind |-> kind, name |-> name, id |-> id, parent |-> parent,
     token |-> token, ok |-> ok, src |-> src, was |-> was]

NoEntity == Entity(<<>>, "", 0, NilStr, <<>>, <<>>)

Step(matched, created, tokenRead, baseRead, was, local0) ==
    [matched |-> matched, created |-> created, tokenRead |-> tokenRead,
     baseRead |-> baseRead, was |-> was, local0 |-> local0]

\* fmt.Errorf: what failed and the name the message carries
Error(what, name) == [what |-> what, name |-> name]
NoError == Error("", <<>>)

\* GenerateTelegrafConfigs has not started
NoDerive ==
    [before |-> <<>>, neededMetrics |-> {}, monitorByMetric |-> <<>>,
     diskMountPoints |-> <<>>]

NoSteps == [push |-> <<>>, http |-> <<>>, legacy |-> <<>>]

\* a process that has not started a run
NoPeer ==
    [cfg |-> EmptyConfig, pc |-> "idle", idx |-> 1, existingByName |-> <<>>,
     existingByNameAndGroup |-> <<>>, groupNameToID |-> <<>>,
     configUpdated |-> FALSE, calls |-> <<>>, steps |-> NoSteps, err |-> NoError]

\* the list entries the current run has created an entity for
Created ==
    {calls[k].src : k \in {j \in DOMAIN calls : calls[j].op = "create" /\ calls[j].ok}}

\* what GetMonitorAs may answer when no transport error occurs: reading an
\* entity into the struct of another kind is the library's business
DecodeOutcomes(id, kind) == IF remote[id].Kind # kind THEN BOOLEAN ELSE {TRUE}

\* the transport failures a step may still suffer
FailureSets(S) == {F \in SUBSET S : Cardinality(F) <= MaxFails - fails}

AddGroupID(name, id) ==
    [n \in (DOMAIN groupNameToID) \cup {name} |->
        IF n = name THEN id ELSE groupNameToID[n]]

SetEntry(c, phase, i, m) ==
    CASE phase = "push" -> [c EXCEPT !.PushMonitors[i] = m]
      [] phase = "http" -> [c EXCEPT !.HTTPMonitors[i] = m]
      [] phase = "legacy" -> [c EXCEPT !.Monitors[i] = m]

\* the loop body returning the error instead of going on to the next entry
ReturnError(phase) ==
    /\ pc' = "failed"
    /\ idx' = idx

Advance(phase) ==
    /\ pc' = After(cfg, phase, idx)[1]
    /\ idx' = After(cfg, phase, idx)[2]

\* the loop going on to the next entry instead of returning the error
GoOn ==
    /\ pc' = After(cfg, pc, idx)[1]
    /\ idx' = After(cfg, pc, idx)[2]

Fatal ==
    /\ pc' = "failed"
    /\ idx' = idx

-----------------------------------------------------------------------------
(* run() and ProvisionKumaMonitor *)

\* run(): load the merged configuration; ProvisionKumaMonitor: snapshot and
\* lookup maps
Start ==
    /\ pc \in {"idle", "done", "failed", "aborted"}
    /\ runs < MaxRuns
    /\ runs' = runs + 1
    /\ prev' = [outcome |-> pc, created |-> Created, remote |-> remote]
    /\ cfg' = LoadMergedConfig(disk)
    /\ groupNameToID' = <<>>
    /\ configUpdated' = FALSE
    /\ calls' = <<>>
    /\ steps' = NoSteps
    /\ \E F \in FailureSets({"snapshot"}) :
          /\ fails' = fails + Cardinality(F)
          /\ IF F # {}
             THEN /\ pc' = "failed"
                  /\ idx' = 1
                  /\ existingByName' = <<>>
                  /\ existingByNameAndGroup' = <<>>
             ELSE /\ pc' = FirstPhase(cfg', 1)
                  /\ idx' = 1
                  /\ \E byKey \in SnapshotByNameAndGroup :
                        /\ existingByNameAndGroup' = byKey
                        /\ existingByName' \in SnapshotByName(byKey)
    /\ err' = IF pc' = "failed" THEN Error("snapshot", <<>>) ELSE NoError
    /\ UNCHANGED <<disk, remote, emptyIDsNil, peer, notifications>>
    /\ UNCHANGED <<telegrafDir, derive>>

\* the group loop, "Check if group exists": the update path
GroupUpdate ==
    /\ pc = "groups"
    /\ cfg.Groups[idx].Name \in DOMAIN existingByName
    /\ LET gcfg == cfg.Groups[idx]
           ids == NotificationIDsOrEmpty(gcfg.NotificationNames)
           id == existingByName[gcfg.Name]
           U == UpdateGroup(remote[id], gcfg, ids)
       IN  /\ groupNameToID' = AddGroupID(gcfg.Name, id)
           /\ \E F \in FailureSets({"fetch", "update"}),
                 decoded \in DecodeOutcomes(id, "group") :
                 LET fetchOK == decoded /\ "fetch" \notin F
                     issued == fetchOK /\ U.updated
                     updOK == "update" \notin F
                 IN  /\ "update" \in F => issued
                     /\ ~decoded => F = {}
                     /\ fails' = fails + Cardinality(F)
                     /\ remote' = IF issued /\ updOK
                                  THEN [remote EXCEPT ![id] = U.entity] ELSE remote
                     /\ calls' = IF issued
                                 THEN Append(calls, Call("update", "group", gcfg.Name, id,
                                          remote[id].Parent, <<>>, updOK, <<"groups", idx>>,
                                          remote[id]))
                                 ELSE calls
    /\ Advance("groups")
    /\ UNCHANGED <<disk, emptyIDsNil, peer, notifications, cfg, existingByName, existingByNameAndGroup,
                   configUpdated, steps, runs, prev>>
    /\ UNCHANGED <<telegrafDir, derive>>
    /\ UNCHANGED err

\* the group loop: "Create new group"
GroupCreate ==
    /\ pc = "groups"
    /\ cfg.Groups[idx].Name \notin DOMAIN existingByName
    /\ LET gcfg == cfg.Groups[idx]
           ids == NotificationIDsOrEmpty(gcfg.NotificationNames)
           id == Len(remote) + 1
       IN  \E F \in FailureSets({"create"}) :
              /\ fails' = fails + Cardinality(F)
              /\ calls' = Append(calls, Call("create", "group", gcfg.Name,
                              IF F = {} THEN id ELSE 0, 0, <<>>, F = {}, <<"groups", idx>>,
                              NoEntity))
              /\ IF F = {}
                 THEN /\ remote' = Append(remote, Entity(gcfg.Name, "group", 0,
                                              gcfg.Description, ids.elems, <<>>))
                      /\ groupNameToID' = AddGroupID(gcfg.Name, id)
                      /\ Advance("groups")
                 ELSE /\ Fatal
                      /\ UNCHANGED <<remote, groupNameToID>>
              /\ err' = IF F = {} THEN err ELSE Error("create group", gcfg.Name)
    /\ UNCHANGED <<disk, emptyIDsNil, peer, notifications, cfg, existingByName, existingByNameAndGroup,
                   configUpdated, steps, runs, prev>>
    /\ UNCHANGED <<telegrafDir, derive>>

\* the update path shared by the three monitor loops: UpdateMonitorBase on
\* the matched entity, with the outcome of its fetch and of its update call
MonitorUpdateCalls(phase, m, id, decoded, F) ==
    LET U == UpdateMonitorBase(remote[id], m,
                 NotificationIDsOrEmpty(m.NotificationNames))
        baseOK == decoded /\ "base" \notin F
        issued == baseOK /\ U.updated
        updOK == "update" \notin F
    IN  /\ "update" \in F => issued
        /\ "base" \in F => m.Type \in {"push", "http"}
        /\ remote' = IF issued /\ updOK THEN [remote EXCEPT ![id] = U.entity] ELSE remote
        /\ calls' = IF issued
                    THEN Append(calls, Call("update", m.Type, m.Name, id,
                             remote[id].Parent, SentToken(remote[id], m), updOK,
                             <<phase, idx>>, remote[id]))
                    ELSE calls

\* push loop, "if exists": token re-fetch, then UpdateMonitorBase
PushUpdate ==
    /\ pc = "push"
    /\ LET m0 == cfg.PushMonitors[idx]
           m == ResolveMetrics([m0 EXCEPT !.Type = "push"], cfg)
           id == LookupGrouped(m)
       IN  /\ id # 0
           /\ \E F \in FailureSets({"token", "base", "update"}),
                 decoded \in DecodeOutcomes(id, "push") :
                 LET tokenOK == decoded /\ "token" \notin F
                     m2 == IF tokenOK
                           THEN [m EXCEPT !.PushToken = AdoptToken(@, remote[id].PushToken)]
                           ELSE m
                 IN  /\ ~decoded => F = {}
                     /\ fails' = fails + Cardinality(F)
                     /\ cfg' = SetEntry(cfg, "push", idx, m2)
                     /\ configUpdated' =
                           (configUpdated \/
                            (tokenOK /\ TokenDiffers(m.PushToken, remote[id].PushToken)))
                     /\ MonitorUpdateCalls("push", m2, id, decoded, F)
                     /\ steps' = [steps EXCEPT !.push = Append(@,
                           Step(id, 0, tokenOK, decoded /\ "base" \notin F,
                                remote[id], m0.PushToken))]
    /\ Advance("push")
    /\ UNCHANGED <<disk, emptyIDsNil, peer, notifications, existingByName, existingByNameAndGroup,
                   groupNameToID, runs, prev>>
    /\ UNCHANGED <<telegrafDir, derive>>
    /\ UNCHANGED err

\* push loop: "Create new push monitor", then read the stored token back
PushCreate ==
    /\ pc = "push"
    /\ LET m0 == cfg.PushMonitors[idx]
           m == ResolveMetrics([m0 EXCEPT !.Type = "push"], cfg)
           ids == NotificationIDsOrEmpty(m.NotificationNames)
           parent == ParentOnCreate(m, cfg)
           id == Len(remote) + 1
       IN  /\ LookupGrouped(m) = 0
           /\ \E bytes \in RandomBytes, F \in FailureSets({"create", "read"}) :
                 LET customToken == GeneratePushToken(bytes)
                     created == "create" \notin F
                     readOK == "read" \notin F
                 IN  /\ "read" \in F => created
                     /\ fails' = fails + Cardinality(F)
                     /\ calls' = Append(calls, Call("create", "push", m.Name,
                                     IF created THEN id ELSE 0, parent, customToken,
                                     created, <<"push", idx>>, NoEntity))
                     /\ IF created
                        THEN /\ remote' = Append(remote, Entity(m.Name, "push", parent,
                                                     m.Description, ids.elems, customToken))
                             /\ cfg' = SetEntry(cfg, "push", idx,
                                   IF readOK /\ customToken # <<>>
                                   THEN [m EXCEPT !.PushToken = customToken] ELSE m)
                             /\ configUpdated' =
                                   (configUpdated \/ (readOK /\ customToken # <<>>))
                             /\ steps' = [steps EXCEPT !.push = Append(@,
                                   Step(0, id, readOK, FALSE, NoEntity, m0.PushToken))]
                             /\ Advance("push")
                        ELSE /\ cfg' = SetEntry(cfg, "push", idx, m)
                             /\ Fatal
                             /\ UNCHANGED <<remote, configUpdated, steps>>
                     /\ err' = IF created THEN err ELSE Error("create monitor", m.Name)
    /\ UNCHANGED <<disk, emptyIDsNil, peer, notifications, existingByName, existingByNameAndGroup,
                   groupNameToID, runs, prev>>
    /\ UNCHANGED <<telegrafDir, derive>>

\* http loop, "if exists": UpdateMonitorBase
HTTPUpdate ==
    /\ pc = "http"
    /\ LET m0 == cfg.HTTPMonitors[idx]
           m == ResolveMetrics([m0 EXCEPT !.Type = "http"], cfg)
           id == LookupGrouped(m)
       IN  /\ id # 0
           /\ \E F \in FailureSets({"base", "update"}),
                 decoded \in DecodeOutcomes(id, "http") :
                 /\ ~decoded => F = {}
                 /\ fails' = fails + Cardinality(F)
                 /\ cfg' = SetEntry(cfg, "http", idx, m)
                 /\ MonitorUpdateCalls("http", m, id, decoded, F)
                 /\ steps' = [steps EXCEPT !.http = Append(@,
                       Step(id, 0, FALSE, decoded /\ "base" \notin F,
                            remote[id], m0.PushToken))]
    /\ Advance("http")
    /\ UNCHANGED <<disk, emptyIDsNil, peer, notifications, existingByName, existingByNameAndGroup,
                   groupNameToID, configUpdated, runs, prev>>
    /\ UNCHANGED <<telegrafDir, derive>>
    /\ UNCHANGED err

\* http loop: "Create new HTTP monitor"
HTTPCreate ==
    /\ pc = "http"
    /\ LET m0 == cfg.HTTPMonitors[idx]
           m == ResolveMetrics([m0 EXCEPT !.Type = "http"], cfg)
           ids == NotificationIDsOrEmpty(m.NotificationNames)
           parent == ParentOnCreate(m, cfg)
           id == Len(remote) + 1
       IN  /\ LookupGrouped(m) = 0
           /\ cfg' = SetEntry(cfg, "http", idx, m)
           /\ IF MissingURL(m)
              THEN /\ Fatal
                   /\ err' = Error("missing url", m.Name)
                   /\ UNCHANGED <<remote, calls, steps, fails>>
              ELSE \E F \in FailureSets({"create"}) :
                      /\ fails' = fails + Cardinality(F)
                      /\ err' = IF F = {} THEN err ELSE Error("create monitor", m.Name)
                      /\ calls' = Append(calls, Call("create", "http", m.Name,
                                      IF F = {} THEN id ELSE 0, parent, <<>>, F = {},
                                      <<"http", idx>>, NoEntity))
                      /\ IF F = {}
                         THEN /\ remote' = Append(remote, Entity(m.Name, "http", parent,
                                                      m.Description, ids.elems, <<>>))
                              /\ steps' = [steps EXCEPT !.http = Append(@,
                                    Step(0, id, FALSE, FALSE, NoEntity, m0.PushToken))]
                              /\ Advance("http")
                         ELSE /\ Fatal
                              /\ UNCHANGED <<remote, steps>>
    /\ UNCHANGED <<disk, emptyIDsNil, peer, notifications, existingByName, existingByNameAndGroup,
                   groupNameToID, configUpdated, runs, prev>>
    /\ UNCHANGED <<telegrafDir, derive>>

\* legacy loop, "if exists": UpdateMonitorBase only
LegacyUpdate ==
    /\ pc = "legacy"
    /\ LET m0 == cfg.Monitors[idx]
           m == ResolveMetrics(m0, cfg)
           id == LookupLegacy(m)
       IN  /\ id # 0
           /\ \E F \in FailureSets({"base", "update"}),
                 decoded \in DecodeOutcomes(id, m.Type) :
                 /\ ~decoded => (F = {} /\ m.Type \in {"push", "http"})
                 /\ fails' = fails + Cardinality(F)
                 /\ cfg' = SetEntry(cfg, "legacy", idx, m)
                 /\ MonitorUpdateCalls("legacy", m, id, decoded, F)
                 /\ steps' = [steps EXCEPT !.legacy = Append(@,
                       Step(id, 0, FALSE,
                            m.Type \in {"push", "http"} /\ decoded /\ "base" \notin F,
                            remote[id], m0.PushToken))]
    /\ Advance("legacy")
    /\ UNCHANGED <<disk, emptyIDsNil, peer, notifications, existingByName, existingByNameAndGroup,
                   groupNameToID, configUpdated, runs, prev>>
    /\ UNCHANGED <<telegrafDir, derive>>
    /\ UNCHANGED err

\* legacy loop: "Create new legacy monitor"
LegacyCreate ==
    /\ pc = "legacy"
    /\ LET m0 == cfg.Monitors[idx]
           m == ResolveMetrics(m0, cfg)
           ids == NotificationIDsOrEmpty(m.NotificationNames)
           parent == LegacyParentOnCreate(m, cfg)
           id == Len(remote) + 1
       IN  /\ LookupLegacy(m) = 0
           /\ IF MissingURL(m) \/ UnsupportedType(m)
              THEN /\ cfg' = SetEntry(cfg, "legacy", idx, m)
                   /\ Fatal
                   /\ err' = IF MissingURL(m) THEN Error("missing url", m.Name)
                             ELSE Error("unsupported type", <<m.Type>>)
                   /\ UNCHANGED <<remote, calls, steps, fails, configUpdated>>
              ELSE \E bytes \in IF m.Type = "push" THEN RandomBytes ELSE {<<>>},
                      F \in FailureSets({"create", "read"}) :
                      LET customToken == IF m.Type = "push"
                                         THEN GeneratePushToken(bytes) ELSE <<>>
                          created == "create" \notin F
                          readOK == "read" \notin F
                      IN  /\ "read" \in F => (created /\ m.Type = "push")
                          /\ fails' = fails + Cardinality(F)
                          /\ err' = IF created THEN err
                                    ELSE Error("create monitor", m.Name)
                          /\ calls' = Append(calls, Call("create", m.Type, m.Name,
                                          IF created THEN id ELSE 0, parent, customToken,
                                          created, <<"legacy", idx>>, NoEntity))
                          /\ IF created
                             THEN /\ remote' = Append(remote, Entity(m.Name, m.Type, parent,
                                                   m.Description, ids.elems, customToken))
                                  /\ cfg' = SetEntry(cfg, "legacy", idx,
                                        IF m.Type = "push" /\ readOK /\ customToken # <<>>
                                        THEN [m EXCEPT !.PushToken = customToken] ELSE m)
                                  /\ configUpdated' =
                                        (configUpdated \/
                                         (m.Type = "push" /\ readOK /\ customToken # <<>>))
                                  /\ steps' = [steps EXCEPT !.legacy = Append(@,
                                        Step(0, id, m.Type = "push" /\ readOK, FALSE,
                                             NoEntity, m0.PushToken))]
                                  /\ Advance("legacy")
                             ELSE /\ cfg' = SetEntry(cfg, "legacy", idx, m)
                                  /\ Fatal
                                  /\ UNCHANGED <<remote, configUpdated, steps>>
    /\ UNCHANGED <<disk, emptyIDsNil, peer, notifications, existingByName, existingByNameAndGroup,
                   groupNameToID, runs, prev>>
    /\ UNCHANGED <<telegrafDir, derive>>

\* the indexes deduplicateMonitors keeps, for the per-entry history
KeptByNameAndGroup(list) == KeepIdx({}, [i \in DOMAIN list |-> MonitorKey(list[i])], 1)
KeptByName(list) == KeepIdx({}, [i \in DOMAIN list |-> list[i].Name], 1)

\* "if configUpdated {"
SaveNever == FALSE
SaveNeeded == configUpdated

\* "Always save config if tokens were updated": SaveConfig deduplicates the
\* in-memory configuration and writes it to the base file; return nil
Save ==
    /\ pc = "save"
    /\ pc' = "done"
    /\ IF SaveNeeded
       THEN /\ cfg' = deduplicateMonitors(cfg)
            /\ steps' = [push |-> Pick(steps.push, KeptByNameAndGroup(cfg.PushMonitors)),
                         http |-> Pick(steps.http, KeptByNameAndGroup(cfg.HTTPMonitors)),
                         legacy |-> Pick(steps.legacy, KeptByName(cfg.Monitors))]
            /\ \E F \in FailureSets({"write"}) :
                  /\ fails' = fails + Cardinality(F)
                  /\ disk' = IF F = {} THEN [disk EXCEPT !.base = cfg'] ELSE disk
       ELSE UNCHANGED <<cfg, steps, fails, disk>>
    /\ UNCHANGED <<remote, emptyIDsNil, peer, notifications, idx, existingByName, existingByNameAndGroup,
                   groupNameToID, configUpdated, calls, runs, prev>>
    /\ UNCHANGED <<telegrafDir, derive>>
    /\ UNCHANGED err

\* the run is cut short (the 60 s budget of run(), or the process is stopped):
\* nothing in memory survives, the remote service keeps what it was sent
\* (a run cut short before its first call leaves no trace at all)
Abort ==
    /\ Running
    /\ calls # <<>>
    /\ runs < MaxRuns
    /\ pc' = "aborted"
    /\ UNCHANGED <<disk, remote, emptyIDsNil, peer, notifications, cfg, idx, existingByName,
                   existingByNameAndGroup, groupNameToID, configUpdated, calls,
                   steps, runs, fails, prev>>
    /\ UNCHANGED <<telegrafDir, derive>>
    /\ UNCHANGED err

-----------------------------------------------------------------------------
(* Initial states: the configuration directory and the remote service      *)

PushEntry(name, group, desc, names, token) ==
    [MonitorConfig("", name, group) EXCEPT
        !.Description = desc, !.NotificationNames = names, !.PushToken = token]

HTTPEntry(name, group, desc, url) ==
    [MonitorConfig("", name, group) EXCEPT !.Description = desc, !.URL = url]

LegacyEntry(type, name, desc, url, token) ==
    [MonitorConfig(type, name, <<>>) EXCEPT
        !.Description = desc, !.URL = url, !.PushToken = token]

GroupEntry(name, desc, names) ==
    [GroupConfig(name) EXCEPT !.Description = desc, !.NotificationNames = names]

BaseConfig(groups, push, http, legacy, cpu) ==
    [EmptyConfig EXCEPT
        !.UptimeKumaURL = "http://kuma", !.Username = "admin", !.Password = "pw",
        !.Interval = 60, !.MaxRetries = 1, !.GlobalThresholds.CPU = cpu,
        !.Groups = groups, !.PushMonitors = push, !.HTTPMonitors = http,
        !.Monitors = legacy]

Descriptions == {NilStr, Ptr("d1")}

PlainGroup == <<GroupEntry(NameG, NilStr, <<>>)>>

RichGroup == <<GroupEntry(NameG, Ptr("d1"), <<"n1">>)>>

GroupLists ==
    {<<>>,
     PlainGroup,
     <<GroupEntry(NameH, NilStr, <<>>), GroupEntry(NameG, NilStr, <<>>)>>,
     <<GroupEntry(NameG, NilStr, <<"missing">>)>>}

GroupedPushEntries ==
    {PushEntry(NameCPU, NameG, NilStr, <<>>, <<>>),
     PushEntry(NameCPU, NameG, NilStr, <<>>, TokenA),
     PushEntry(NameCPU, NameG, Ptr("d1"), <<"n1">>, <<>>),
     PushEntry(NameCPU, NameG, Ptr("d1"), <<>>, TokenA)}

\* one push monitor of a declared group
GroupedPushConfigs ==
    {BaseConfig(gs, <<e>>, <<>>, <<>>, 0) :
        gs \in {PlainGroup, RichGroup}, e \in GroupedPushEntries}

\* one push monitor without group, named like its group, or of a group that
\* is not the first or not declared
OtherPushConfigs ==
    {BaseConfig(gs, <<PushEntry(NameCPU, <<>>, NilStr, <<>>, t)>>, <<>>, <<>>, 0) :
        gs \in {<<>>, PlainGroup}, t \in {<<>>, TokenA}}
    \cup {BaseConfig(gs, <<PushEntry(NameG, NameG, NilStr, <<>>, <<>>)>>, <<>>, <<>>, 0) :
            gs \in {<<>>, PlainGroup, RichGroup}}
    \cup {BaseConfig(gs, <<PushEntry(NameCPU, NameG, NilStr, <<>>, <<>>)>>, <<>>, <<>>, 0) :
            gs \in GroupLists \ {PlainGroup}}

LegacyEntries ==
    {LegacyEntry("push", NameCPU, NilStr, "", t) : t \in {<<>>, TokenA}}
    \cup {LegacyEntry("http", NameWeb, NilStr, u, <<>>) : u \in {"", "http://web"}}
    \cup {LegacyEntry("http", NameWeb, Ptr("d1"), "http://web", <<>>),
          LegacyEntry("ping", NameCPU, NilStr, "", <<>>)}

\* legacy entries of every kind, alone or beside a push entry named CPU
LegacyConfigs ==
    {BaseConfig(<<>>, <<PushEntry(NameCPU, <<>>, NilStr, <<>>, <<>>)>>, <<>>, <<e>>, 0) :
        e \in LegacyEntries}
    \cup {BaseConfig(PlainGroup, <<>>, <<>>, <<e>>, 0) : e \in LegacyEntries}

HTTPEntries ==
    {HTTPEntry(NameWeb, g, NilStr, u) : g \in {<<>>, NameG}, u \in {"", "http://web"}}
    \cup {HTTPEntry(NameWeb, NameH, NilStr, "http://web"),
          HTTPEntry(NameG, <<>>, Ptr("d1"), "http://web")}

HTTPConfigs ==
    {BaseConfig(PlainGroup, <<>>, <<e>>, <<>>, 0) : e \in HTTPEntries}
    \cup {BaseConfig(<<>>, <<>>, <<HTTPEntry(NameWeb, <<>>, NilStr, "http://web")>>, <<>>, 0)}

\* an identity key declared twice in one list; an unknown group, an unknown
\* notification name and a global CPU threshold
OddConfigs ==
    {BaseConfig(PlainGroup, <<e, e>>, <<>>, <<>>, 0) :
        e \in {PushEntry(NameCPU, g, NilStr, <<>>, <<>>) : g \in {<<>>, NameG}}}
    \cup {BaseConfig(PlainGroup, <<PushEntry(NameCPU, g, NilStr, <<"missing">>, <<>>)>>,
                     <<>>, <<>>, c) : g \in {NameG, NameH}, c \in {0, 75}}

RemoteGroupG == Entity(NameG, "group", 0, NilStr, <<>>, <<>>)

RemotePush ==
    {Entity(NameCPU, "push", 1, NilStr, <<>>, TokenA),
     Entity(NameCPU, "push", 1, Ptr("d1"), <<1>>, TokenB),
     Entity(NameCPU, "push", 1, Ptr("d1"), <<>>, TokenB),
     Entity(NameCPU, "push", 0, NilStr, <<>>, TokenB)}

\* a group and a monitor that share the name G
RemoteCollision ==
    <<RemoteGroupG, Entity(NameG, "http", 1, NilStr, <<>>, <<>>),
      Entity(NameCPU, "push", 1, NilStr, <<>>, TokenB)>>

RemoteOthers ==
    {<<Entity(NameCPU, "http", 0, Ptr("d1"), <<>>, <<>>)>>,
     <<Entity(NameWeb, "http", 0, NilStr, <<1>>, <<>>)>>,
     <<Entity(NameCPU, "push", 0, NilStr, <<>>, <<>>)>>}

\* nothing, the group alone, the group and a push monitor
GroupedRemoteStates ==
    {<<>>, <<RemoteGroupG>>, <<Entity(NameG, "group", 0, Ptr("d1"), <<1>>, <<>>)>>,
     RemoteCollision}
    \cup {<<RemoteGroupG, m>> : m \in RemotePush}

FewRemoteStates ==
    {<<>>, <<RemoteGroupG>>, <<RemoteGroupG, Entity(NameCPU, "push", 1, NilStr, <<>>, TokenA)>>,
     RemoteCollision}

\* the configuration directory and the remote state a behaviour starts from
InitialPairs ==
    (GroupedPushConfigs \X GroupedRemoteStates)
    \cup (OtherPushConfigs \X (FewRemoteStates \cup RemoteOthers))
    \cup (LegacyConfigs \X (FewRemoteStates \cup RemoteOthers))
    \cup ((HTTPConfigs \cup OddConfigs) \X FewRemoteStates)
    \cup (HTTPConfigs \X RemoteOthers)

Init ==
    /\ \E p \in InitialPairs :
          /\ disk = [base |-> p[1], frags |-> <<>>]
          /\ remote = p[2]
    /\ emptyIDsNil \in BOOLEAN
    /\ cfg = EmptyConfig
    /\ pc = "idle"
    /\ idx = 1
    /\ existingByName = <<>>
    /\ existingByNameAndGroup = <<>>
    /\ groupNameToID = <<>>
    /\ configUpdated = FALSE
    /\ calls = <<>>
    /\ steps = NoSteps
    /\ runs = 0
    /\ fails = 0
    /\ prev = [outcome |-> "none", created |-> {}, remote |-> remote]
    /\ telegrafDir = <<>>
    /\ derive = NoDerive
    /\ peer = NoPeer
    /\ notifications = Notifications
    /\ err = NoError

Next ==
    \/ Start
    \/ GroupUpdate
    \/ GroupCreate
    \/ PushUpdate
    \/ PushCreate
    \/ HTTPUpdate
    \/ HTTPCreate
    \/ LegacyUpdate
    \/ LegacyCreate
    \/ Save
    \/ Abort

Spec == Init /\ [][Next]_vars

-----------------------------------------------------------------------------
(* LoadMergedConfig on its own: the base file and the fragments of the     *)
(* directory, folded one mergeConfigs call at a time.  cfg is baseConfig,  *)
(* idx the next file of additionalFiles.                                   *)

\* a configuration file holding scalar settings only; s and n pick which of
\* its strings and numbers are set, and to what (numbers may be negative)
ScalarFile(s, n) ==
    [EmptyConfig EXCEPT
        !.UptimeKumaURL = <<"", "http://a", "http://b">>[s + 1],
        !.Username = <<"u1", "", "u2">>[s + 1],
        !.Password = <<"p1", "p2", "">>[s + 1],
        !.Interval = <<0 - 5, 0, 30, 60>>[n + 1],
        !.MaxRetries = <<0, 3, 0 - 1, 5>>[n + 1],
        !.Agent.UseOutputsDiscard = <<"nil", "true", "false">>[((s + n) % 3) + 1],
        !.Agent.DockerImage = <<"", "img:1", "img:2">>[((s + n) % 3) + 1],
        !.GlobalThresholds.CPU = <<80, 0 - 1, 0, 70>>[n + 1],
        !.GlobalThresholds.RAM = <<0, 85, 95, 0 - 2>>[n + 1],
        !.GlobalThresholds.Disk = <<0 - 3, 0, 60, 75>>[n + 1]]

ScalarFiles == {ScalarFile(s, n) : s \in 0..2, n \in 0..3}

RECURSIVE SeqsUpTo(_, _)
SeqsUpTo(S, n) ==
    IF n = 0 THEN {<<>>}
    ELSE LET shorter == SeqsUpTo(S, n - 1)
         IN  shorter \cup {Append(q, x) : q \in shorter, x \in S}

InitMerge ==
    /\ \E base \in ScalarFiles, frags \in SeqsUpTo(ScalarFiles, MaxFrags) :
          /\ disk = [base |-> base, frags |-> frags]
          /\ cfg = base
    /\ pc = "merge"
    /\ idx = 1
    /\ remote = <<>>
    /\ emptyIDsNil = FALSE
    /\ existingByName = <<>>
    /\ existingByNameAndGroup = <<>>
    /\ groupNameToID = <<>>
    /\ configUpdated = FALSE
    /\ calls = <<>>
    /\ steps = NoSteps
    /\ runs = 0
    /\ fails = 0
    /\ prev = [outcome |-> "none", created |-> {}, remote |-> remote]
    /\ telegrafDir = <<>>
    /\ derive = NoDerive
    /\ peer = NoPeer
    /\ notifications = Notifications
    /\ err = NoError

\* one turn of the loop over additionalFiles
MergeStep ==
    /\ pc = "merge"
    /\ idx <= Len(disk.frags)
    /\ cfg' = mergeConfigs(cfg, disk.frags[idx])
    /\ idx' = idx + 1
    /\ UNCHANGED <<disk, remote, emptyIDsNil, peer, notifications, pc, existingByName,
                   existingByNameAndGroup, groupNameToID, configUpdated, calls,
                   steps, runs, fails, prev>>
    /\ UNCHANGED <<telegrafDir, derive>>
    /\ UNCHANGED err

\* the loop is over: return &baseConfig
MergeReturn ==
    /\ pc = "merge"
    /\ idx > Len(disk.frags)
    /\ pc' = "merged"
    /\ UNCHANGED <<disk, remote, emptyIDsNil, peer, notifications, cfg, idx, existingByName,
                   existingByNameAndGroup, groupNameToID, configUpdated, calls,
                   steps, runs, fails, prev>>
    /\ UNCHANGED <<telegrafDir, derive>>
    /\ UNCHANGED err

NextMerge ==
    \/ MergeStep
    \/ MergeReturn

SpecMerge == InitMerge /\ [][NextMerge]_vars

-----------------------------------------------------------------------------
(* LoadMergedConfig over files that differ in their lists *)

\* the (name, group) pairs a file can declare; the last two have the
\* same name + "|" + group
MonitorIdents ==
    << <<NameCPU, NameG>>, <<NameCPU, NameH>>, <<<<"a">>, <<"b","|">>>>,
       <<<<"a","|","b">>, <<>>>> >>

ListShapes == SeqsUpTo(1..3, 2) \cup {<<4>>, <<3, 4>>}

\* a file whose four lists declare the entries of a shape; the description of
\* an entry names the file it was read from
ListFile(shape, tag) ==
    [EmptyConfig EXCEPT
        !.Groups = [k \in DOMAIN shape |->
            [GroupConfig(<<NameG, NameH, NameWeb>>[((shape[k] - 1) % 3) + 1])
                EXCEPT !.Description = Ptr(tag)]],
        !.PushMonitors = [k \in DOMAIN shape |->
            [MonitorConfig("push", MonitorIdents[shape[k]][1], MonitorIdents[shape[k]][2])
                EXCEPT !.Description = Ptr(tag)]],
        !.HTTPMonitors = [k \in DOMAIN shape |->
            [MonitorConfig("http", MonitorIdents[shape[k]][1], MonitorIdents[shape[k]][2])
                EXCEPT !.Description = Ptr(tag), !.URL = "http://a"]],
        !.Monitors = [k \in DOMAIN shape |->
            [MonitorConfig("push", <<NameCPU, NameWeb, NameG>>[((shape[k] - 1) % 3) + 1], <<>>)
                EXCEPT !.Description = Ptr(tag)]]]

FileTags == <<"config.yaml", "config.1.yaml", "config.2.yaml", "config.3.yaml">>

InitLists ==
    /\ \E shapes \in SeqsUpTo(ListShapes, MaxFrags + 1) :
          /\ shapes # <<>>
          /\ disk = [base |-> ListFile(shapes[1], FileTags[1]),
                     frags |-> [k \in 1..(Len(shapes) - 1) |->
                                   ListFile(shapes[k + 1], FileTags[k + 1])]]
          /\ cfg = disk.base
    /\ pc = "merge"
    /\ idx = 1
    /\ remote = <<>>
    /\ emptyIDsNil = FALSE
    /\ existingByName = <<>>
    /\ existingByNameAndGroup = <<>>
    /\ groupNameToID = <<>>
    /\ configUpdated = FALSE
    /\ calls = <<>>
    /\ steps = NoSteps
    /\ runs = 0
    /\ fails = 0
    /\ prev = [outcome |-> "none", created |-> {}, remote |-> remote]
    /\ telegrafDir = <<>>
    /\ derive = NoDerive
    /\ peer = NoPeer
    /\ notifications = Notifications
    /\ err = NoError

SpecLists == InitLists /\ [][NextMerge]_vars

-----------------------------------------------------------------------------
(* ResolveAllMetrics applied again and again to one configuration *)

MaxApply == 2

ResolveNames ==
    {NameCPU, NameWeb, <<"R","a","m">>, <<"m","e","m">>, <<"d","i","s","k">>,
     <<"D","i","s","k","r","o","o","t">>, <<"d","i","s","k","d","a","t","a">>}

ResolveEntries ==
    {[MonitorConfig("push", n, <<>>) EXCEPT
          !.Metric = k, !.Field = f, !.Filesystem = fs, !.Threshold = t] :
        n \in ResolveNames,
        k \in {<<>>, MetricCPU, MetricMem, MetricDisk, MetricDockerCPU, <<"n","e","t">>},
        f \in {"", "usage_idle"},
        fs \in {<<>>, <<"/","v","a","r">>},
        t \in {0, 50}}

ResolveThresholds ==
    [CPU : {0, 80, 0 - 1}, RAM : {0, 70}, Disk : {0, 60}]

InitResolve ==
    /\ \E m \in ResolveEntries, g \in ResolveThresholds, list \in {"push", "legacy"} :
          /\ disk = [base |-> [EmptyConfig EXCEPT
                                  !.GlobalThresholds = g,
                                  !.PushMonitors = IF list = "push" THEN <<m>> ELSE <<>>,
                                  !.Monitors = IF list = "legacy" THEN <<m>> ELSE <<>>],
                     frags |-> <<>>]
          /\ cfg = disk.base
    /\ pc = "resolve"
    /\ idx = 0
    /\ remote = <<>>
    /\ emptyIDsNil = FALSE
    /\ existingByName = <<>>
    /\ existingByNameAndGroup = <<>>
    /\ groupNameToID = <<>>
    /\ configUpdated = FALSE
    /\ calls = <<>>
    /\ steps = NoSteps
    /\ runs = 0
    /\ fails = 0
    /\ prev = [outcome |-> "none", created |-> {}, remote |-> remote]
    /\ telegrafDir = <<>>
    /\ derive = NoDerive
    /\ peer = NoPeer
    /\ notifications = Notifications
    /\ err = NoError

\* cfg.ResolveAllMetrics(); idx counts the applications
ResolveAll ==
    /\ pc = "resolve"
    /\ idx < MaxApply
    /\ cfg' = ResolveAllMetrics(cfg)
    /\ idx' = idx + 1
    /\ UNCHANGED <<disk, remote, emptyIDsNil, peer, notifications, pc, existingByName,
                   existingByNameAndGroup, groupNameToID, configUpdated, calls,
                   steps, runs, fails, prev>>
    /\ UNCHANGED <<telegrafDir, derive>>
    /\ UNCHANGED err

NextResolve == ResolveAll

SpecResolve == InitResolve /\ [][NextResolve]_vars

-----------------------------------------------------------------------------
(* internal/telegraf: GenerateTelegrafConfigs *)

MaxMonitors == 3

InputPrefix == <<"0","5","-","i","n","p","u","t","s","-">>
ConfSuffix == <<".","c","o","n","f">>
OutputPrefix ==
    <<"9","0","-","u","p","t","i","m","e","-","k","u","m","a","-","p","u","s","h","-">>
NameDocker == <<"d","o","c","k","e","r">>

InputFile(kind) == InputPrefix \o kind \o ConfSuffix
DiscardFile ==
    <<"0","0","-","o","u","t","p","u","t","s","-","d","i","s","c","a","r","d">>
    \o ConfSuffix

\* safeName := strings.ToLower(strings.ReplaceAll(m.Name, " ", "-"))
SafeName(name) == ToLower(ReplaceAll(name, " ", "-"))
OutputFile(name) == OutputPrefix \o SafeName(name) \o ConfSuffix

\* renderTemplate: the file holds the rendering of a template with its data
Rendered(template, data) == [template |-> template, data |-> data]

WriteFile(d, name, content) ==
    [n \in DOMAIN d \cup {name} |-> IF n = name THEN content ELSE d[n]]

\* a sequence of (name, content) writes applied in order
RECURSIVE WriteAll(_, _, _)
WriteAll(d, writes, i) ==
    IF i > Len(writes) THEN d
    ELSE WriteAll(WriteFile(d, writes[i].name, writes[i].content), writes, i + 1)

\* a collecting loop that does not look at the type of the entry
EligibleAnyType(m) == m.Metric # <<>> /\ m.PushToken # <<>>

\* the entries the collecting loop does not skip
Eligible(m) == m.Type = "push" /\ m.Metric # <<>> /\ m.PushToken # <<>>

\* the eligible entries in GetAllMonitors order, each after m.ResolveMetrics(cfg)
EligibleMonitors(c) ==
    LET e == SelectSeq(GetAllMonitors(c), Eligible)
    IN  [i \in DOMAIN e |-> ResolveMetrics(e[i], c)]

MetricInfo(m) ==
    [Field |-> m.Field, Threshold |-> m.Threshold, Token |-> m.PushToken,
     Name |-> m.Name, Group |-> m.Group, Filesystem |-> m.Filesystem,
     ContainerName |-> m.ContainerName]

HasMountPoint(m) == m.Metric = MetricDisk /\ m.Filesystem # <<>>

\* the trimmed filesystems, every occurrence kept
EveryMountPoint(ms) ==
    LET d == SelectSeq(ms, HasMountPoint)
    IN  [i \in DOMAIN d |-> TrimSpace(d[i].Filesystem)]

\* diskMountPoints: the trimmed filesystems in first-seen order
DiskMountPoints(ms) ==
    LET d == SelectSeq(ms, HasMountPoint)
        fs == [i \in DOMAIN d |-> TrimSpace(d[i].Filesystem)]
    IN  Pick(fs, KeepIdx({}, fs, 1))

\* monitorByMetric[metric]: the infos of that metric in list order
InfosOf(ms, metric) ==
    LET is == SelectSeq([i \in DOMAIN ms |-> i], LAMBDA i : ms[i].Metric = metric)
    IN  [k \in DOMAIN is |-> MetricInfo(ms[is[k]])]

\* the input files of section 1, in the order they are rendered
InputWrites(needed, mounts) ==
    (IF MetricCPU \in needed
     THEN <<[name |-> InputFile(MetricCPU), content |-> Rendered("inputs_cpu", <<>>)]>>
     ELSE <<>>)
    \o (IF MetricMem \in needed
        THEN <<[name |-> InputFile(MetricMem), content |-> Rendered("inputs_mem", <<>>)]>>
        ELSE <<>>)
    \o (IF \E k \in needed : Contains(ToLower(k), NameDocker)
        THEN <<[name |-> InputFile(NameDocker),
                content |-> Rendered("inputs_docker", <<>>)]>>
        ELSE <<>>)
    \o (IF Len(mounts) > 0
        THEN <<[name |-> InputFile(MetricDisk),
                content |-> Rendered("inputs_disk", SortStrings(mounts))]>>
        ELSE <<>>)

\* useOutputsDiscard: true unless the configuration sets the flag
UseOutputsDiscard(c) ==
    IF c.Agent.UseOutputsDiscard # "nil" THEN c.Agent.UseOutputsDiscard = "true"
    ELSE TRUE

\* the outputs.exec file of one monitor of a metric
OutputWrite(c, metric, info) ==
    [name |-> OutputFile(info.Name),
     content |-> Rendered("outputs_exec_push",
        [DockerImage |-> c.Agent.DockerImage, MonitorName |-> info.Name,
         Group |-> info.Group, Token |-> info.Token, Metric |-> metric,
         Field |-> info.Field, Threshold |-> info.Threshold,
         ContainerName |-> info.ContainerName, Filesystem |-> info.Filesystem])]

\* the writes of section 3 when the map is ranged over in the given order
RECURSIVE OutputWrites(_, _, _, _)
OutputWrites(c, byMetric, order, i) ==
    IF i > Len(order) THEN <<>>
    ELSE [k \in DOMAIN byMetric[order[i]] |->
              OutputWrite(c, order[i], byMetric[order[i]][k])]
         \o OutputWrites(c, byMetric, order, i + 1)

\* the orders a range over a map with these keys can take
RangeOrders(keys) ==
    {o \in [1..Cardinality(keys) -> keys] :
        \A i, j \in 1..Cardinality(keys) : i # j => o[i] # o[j]}

\* MkdirAll, ReadDir and the removal of the old input files; a failed removal
\* is only logged
TelegrafCleanup ==
    /\ pc = "telegraf"
    /\ \/ /\ fails < MaxFails
          /\ fails' = fails + 1
          /\ pc' = "failed"
          /\ UNCHANGED <<telegrafDir, derive>>
       \/ LET old == {n \in DOMAIN telegrafDir :
                         HasPrefix(n, InputPrefix) /\ HasSuffix(n, ConfSuffix)}
          IN  \E kept \in SUBSET old :
                  /\ fails + Cardinality(kept) <= MaxFails
                  /\ fails' = fails + Cardinality(kept)
                  /\ telegrafDir' =
                        [n \in (DOMAIN telegrafDir \ old) \cup kept |-> telegrafDir[n]]
                  /\ derive' = [NoDerive EXCEPT !.before = telegrafDir]
                  /\ pc' = "collect"
    /\ UNCHANGED <<disk, remote, emptyIDsNil, peer, notifications, cfg, idx, existingByName,
                   existingByNameAndGroup, groupNameToID, configUpdated, calls,
                   steps, runs, prev>>
    /\ UNCHANGED err

\* the loop over cfg.GetAllMonitors()
TelegrafCollect ==
    /\ pc = "collect"
    /\ LET ms == EligibleMonitors(cfg)
           needed == {ms[i].Metric : i \in DOMAIN ms}
       IN  derive' = [derive EXCEPT
                         !.neededMetrics = needed,
                         !.monitorByMetric = [k \in needed |-> InfosOf(ms, k)],
                         !.diskMountPoints = DiskMountPoints(ms)]
    /\ pc' = "inputs"
    /\ UNCHANGED <<disk, remote, emptyIDsNil, peer, notifications, cfg, idx, existingByName,
                   existingByNameAndGroup, groupNameToID, configUpdated, calls,
                   steps, runs, fails, prev, telegrafDir>>
    /\ UNCHANGED err

\* a sequence of renderings: all succeed, or the first n do and the next fails
Render(writes, next) ==
    \/ /\ telegrafDir' = WriteAll(telegrafDir, writes, 1)
       /\ pc' = next
       /\ UNCHANGED fails
    \/ /\ fails < MaxFails
       /\ \E n \in 0..(Len(writes) - 1) :
              telegrafDir' = WriteAll(telegrafDir, SubSeq(writes, 1, n), 1)
       /\ fails' = fails + 1
       /\ pc' = "failed"

\* 1. the input configs
TelegrafInputs ==
    /\ pc = "inputs"
    /\ Render(InputWrites(derive.neededMetrics, derive.diskMountPoints), "discard")
    /\ UNCHANGED <<disk, remote, emptyIDsNil, peer, notifications, cfg, idx, existingByName,
                   existingByNameAndGroup, groupNameToID, configUpdated, calls,
                   steps, runs, prev, derive>>
    /\ UNCHANGED err

\* 2. the global outputs.discard
TelegrafDiscard ==
    /\ pc = "discard"
    /\ Render(IF UseOutputsDiscard(cfg)
              THEN <<[name |-> DiscardFile, content |-> Rendered("outputs_discard", <<>>)]>>
              ELSE <<>>, "outputs")
    /\ UNCHANGED <<disk, remote, emptyIDsNil, peer, notifications, cfg, idx, existingByName,
                   existingByNameAndGroup, groupNameToID, configUpdated, calls,
                   steps, runs, prev, derive>>
    /\ UNCHANGED err

\* 3. one outputs.exec per push monitor, the map ranged over in some order
TelegrafOutputs ==
    /\ pc = "outputs"
    /\ \E order \in RangeOrders(DOMAIN derive.monitorByMetric) :
           Render(OutputWrites(cfg, derive.monitorByMetric, order, 1), "generated")
    /\ UNCHANGED <<disk, remote, emptyIDsNil, peer, notifications, cfg, idx, existingByName,
                   existingByNameAndGroup, groupNameToID, configUpdated, calls,
                   steps, runs, prev, derive>>
    /\ UNCHANGED err

\* the monitors a reconciled configuration can hold
TelegrafEntry(name, group, metric, fs, token) ==
    [MonitorConfig("push", name, group) EXCEPT
        !.Metric = metric, !.Filesystem = fs, !.PushToken = token]

TelegrafEntries ==
    {TelegrafEntry(NameCPU, NameG, MetricCPU, <<>>, TokenA),
     TelegrafEntry(NameCPU, NameH, MetricCPU, <<>>, TokenB),
     TelegrafEntry(<<"m","y","-","c","p","u">>, <<>>, MetricMem, <<>>, TokenA),
     TelegrafEntry(<<"M","y"," ","C","P","U">>, <<>>, MetricDisk, FsRoot, TokenB),
     TelegrafEntry(<<"d","a","t","a">>, NameG, MetricDisk, FsData, TokenA),
     TelegrafEntry(<<"d">>, <<>>, MetricDisk, <<>>, TokenA),
     TelegrafEntry(<<"V","M","'","s"," ","%","!">>, <<>>, MetricDisk, <<" ","/">>, TokenA),
     TelegrafEntry(<<"d","o","c","k">>, <<>>, MetricDockerCPU, <<>>, TokenA),
     TelegrafEntry(<<"r","a","m">>, <<>>, MetricMem, <<>>, <<>>)}

OldFile == Rendered("old", <<>>)

\* a directory left by earlier derivations and by the operator
UsedDir ==
    LET names == {InputFile(MetricCPU), InputFile(MetricDisk),
                  InputFile(<<"n","e","t">>),
                  InputFile(MetricMem) \o <<".","b","a","k">>,
                  DiscardFile, OutputFile(<<"o","l","d">>),
                  <<"t","e","l","e","g","r","a","f">> \o ConfSuffix}
    IN  [n \in names |-> OldFile]

\* directory, discard flag, http list and legacy list
TelegrafSettings ==
    {[dir |-> <<>>, discard |-> "nil", http |-> <<>>, legacy |-> <<>>],
     [dir |-> UsedDir, discard |-> "false",
      http |-> <<TelegrafEntry(NameWeb, <<>>, MetricCPU, <<>>, TokenA)>>,
      legacy |-> <<TelegrafEntry(NameWeb, <<>>, <<>>, <<>>, TokenA)>>],
     [dir |-> UsedDir, discard |-> "true", http |-> <<>>,
      legacy |-> <<[TelegrafEntry(NameWeb, <<>>, MetricMem, <<>>, TokenA)
                       EXCEPT !.Type = "http"]>>]}

InitTelegraf ==
    /\ \E ms \in SeqsUpTo(TelegrafEntries, MaxMonitors), s \in TelegrafSettings :
          /\ cfg = [EmptyConfig EXCEPT
                       !.Agent.UseOutputsDiscard = s.discard,
                       !.PushMonitors = ms,
                       !.HTTPMonitors = s.http,
                       !.Monitors = s.legacy]
          /\ telegrafDir = s.dir
    /\ disk = [base |-> cfg, frags |-> <<>>]
    /\ pc = "telegraf"
    /\ idx = 1
    /\ remote = <<>>
    /\ emptyIDsNil = FALSE
    /\ existingByName = <<>>
    /\ existingByNameAndGroup = <<>>
    /\ groupNameToID = <<>>
    /\ configUpdated = FALSE
    /\ calls = <<>>
    /\ steps = NoSteps
    /\ runs = 0
    /\ fails = 0
    /\ prev = [outcome |-> "none", created |-> {}, remote |-> remote]
    /\ derive = NoDerive
    /\ peer = NoPeer
    /\ notifications = Notifications
    /\ err = NoError

NextTelegraf ==
    \/ TelegrafCleanup
    \/ TelegrafCollect
    \/ TelegrafInputs
    \/ TelegrafDiscard
    \/ TelegrafOutputs

SpecTelegraf == InitTelegraf /\ [][NextTelegraf]_vars

-----------------------------------------------------------------------------
(* The merge override law (C10)                                            *)

ScalarFields ==
    {"UptimeKumaURL", "Username", "Password", "Interval", "MaxRetries",
     "UseOutputsDiscard", "DockerImage", "CPU", "RAM", "Disk"}

NumberFields == {"Interval", "MaxRetries", "CPU", "RAM", "Disk"}

ScalarOf(c, f) ==
    CASE f = "UseOutputsDiscard" -> c.Agent.UseOutputsDiscard
      [] f = "DockerImage" -> c.Agent.DockerImage
      [] f \in {"CPU", "RAM", "Disk"} -> c.GlobalThresholds[f]
      [] OTHER -> c[f]

\* the field is non-empty / non-zero / set in the file
IsGiven(c, f) ==
    IF f \in NumberFields THEN ScalarOf(c, f) # 0
    ELSE IF f = "UseOutputsDiscard" THEN ScalarOf(c, f) # "nil"
    ELSE ScalarOf(c, f) # ""

\* the field is non-empty / positive / set in the file
IsGivenPositive(c, f) ==
    IF f \in NumberFields THEN ScalarOf(c, f) > 0 ELSE IsGiven(c, f)

\* the fragments folded so far
Folded == 1..(idx - 1)

LastGiven(f) == {j \in Folded : IsGiven(disk.frags[j], f)}
LastGivenPositive(f) == {j \in Folded : IsGivenPositive(disk.frags[j], f)}

Latest(S) == CHOOSE j \in S : \A k \in S : k <= j

\* C10, as stated: after folding fragments onto the base in order, every
\* scalar field equals the value of the last fragment in which the field is
\* non-empty, non-zero or set, and the base's value when there is none.
MergeOverrideNonZero ==
    pc \in {"merge", "merged"} =>
        \A f \in ScalarFields :
            ScalarOf(cfg, f) =
                IF LastGiven(f) = {} THEN ScalarOf(disk.base, f)
                ELSE ScalarOf(disk.frags[Latest(LastGiven(f))], f)

\* C10, amended: after folding fragments onto the base in order, every
\* scalar field equals the value of the last fragment in which the field is
\* a non-empty string, a positive number or a set flag, and the base's value
\* when there is none; a fragment in which it is empty, zero, negative or
\* unset leaves the accumulated value unchanged.
MergeOverrideLaw ==
    pc \in {"merge", "merged"} =>
        \A f \in ScalarFields :
            ScalarOf(cfg, f) =
                IF LastGivenPositive(f) = {} THEN ScalarOf(disk.base, f)
                ELSE ScalarOf(disk.frags[Latest(LastGivenPositive(f))], f)

\* two fragments folded: the first one's username survives the second, which
\* has none, and the second one's negative interval leaves the first one's
MergeOverrideSeen ==
    /\ pc = "merged"
    /\ Len(disk.frags) = 2
    /\ disk.frags[2].Username = ""
    /\ disk.frags[1].Username # ""
    /\ disk.base.Username # disk.frags[1].Username
    /\ cfg.Username = disk.frags[1].Username
    /\ disk.frags[2].Interval < 0
    /\ disk.frags[1].Interval > 0
    /\ cfg.Interval = disk.frags[1].Interval
    /\ disk.frags[2].UptimeKumaURL # ""
    /\ cfg.UptimeKumaURL = disk.frags[2].UptimeKumaURL
    /\ cfg.UptimeKumaURL # disk.frags[1].UptimeKumaURL

-----------------------------------------------------------------------------
(* Reconciliation: creates (C1, C2)                                        *)

\* C1: when a full run has completed and a second full run is executed, the
\* second run issues no create call, whatever the configuration and the
\* remote state the first run started from.
SecondRunCreatesNothing ==
    (runs = 2 /\ prev.outcome = "done" /\ pc = "done") =>
        \A k \in DOMAIN calls : calls[k].op # "create"

DuplicateGroups(r) ==
    \E i, j \in DOMAIN r :
        /\ i < j
        /\ r[i].Kind = "group" /\ r[j].Kind = "group"
        /\ r[i].Name = r[j].Name

DuplicateMonitors(r) ==
    \E i, j \in DOMAIN r :
        /\ i < j
        /\ r[i].Kind # "group" /\ r[j].Kind # "group"
        /\ r[i].Name = r[j].Name
        /\ r[i].Parent = r[j].Parent

\* C2: after a run that started from a remote state without duplicates, the
\* remote holds at most one group of a name and at most one monitor of a
\* (name, parent group) identity, also when the configuration repeats a key.
OneEntityPerKey ==
    (pc = "done" /\ ~DuplicateGroups(prev.remote) /\ ~DuplicateMonitors(prev.remote)) =>
        (~DuplicateGroups(remote) /\ ~DuplicateMonitors(remote))

-----------------------------------------------------------------------------
(* Reconciliation: push tokens (C3, C4)                                    *)

\* C3, as stated: a push-list entry matched to a remote entity whose stored
\* token differs from the entry's local token ends with the local token
\* equal to the remote one, and the remote token is left as it was.
TokenAuthority ==
    \A i \in DOMAIN steps.push :
        LET s == steps.push[i] IN
        (s.matched # 0 /\ s.was.PushToken # s.local0) =>
            /\ cfg.PushMonitors[i].PushToken = remote[s.matched].PushToken
            /\ remote[s.matched].PushToken = s.was.PushToken

\* C3, amended: a push-list entry matched to a remote entity whose detail
\* fetch succeeds and whose stored token is non-empty and differs from the
\* entry's local token ends with the local token equal to the remote one;
\* the remote token is left as it was.
TokenAuthorityWhenRead ==
    \A i \in DOMAIN steps.push :
        LET s == steps.push[i] IN
        (s.matched # 0 /\ s.tokenRead /\ s.was.PushToken # <<>>
            /\ s.was.PushToken # s.local0) =>
            /\ cfg.PushMonitors[i].PushToken = remote[s.matched].PushToken
            /\ remote[s.matched].PushToken = s.was.PushToken

\* a run that found token B on the remote and token A in the file
TokenAuthoritySeen ==
    /\ pc = "done"
    /\ \E i \in DOMAIN steps.push :
          /\ steps.push[i].matched # 0
          /\ steps.push[i].tokenRead
          /\ steps.push[i].local0 = TokenA
          /\ steps.push[i].was.PushToken = TokenB
          /\ cfg.PushMonitors[i].PushToken = TokenB
          /\ remote[steps.push[i].matched].PushToken = TokenB

\* C4: a push entry of the legacy list that matches a remote push monitor
\* gets the same token re-fetch: when the remote token is set and differs
\* from the local one, the local one becomes the remote one and the
\* configuration is marked dirty.
LegacyTokenRefetch ==
    \A i \in DOMAIN steps.legacy :
        LET s == steps.legacy[i]
            m == cfg.Monitors[i]
        IN  (/\ m.Type = "push"
             /\ s.matched # 0
             /\ s.was.Kind = "push"
             /\ s.was.PushToken # <<>>
             /\ s.was.PushToken # s.local0
             /\ fails = 0) =>
                (m.PushToken = s.was.PushToken /\ configUpdated)

-----------------------------------------------------------------------------
(* Reconciliation: updates (C5, C6) and retries (C7)                       *)

\* C5: an update of an existing monitor is sent only if the entry's
\* description or its target notification ids differ from what the remote
\* holds; with no description and the same ids on both sides none is sent.
\* (Until the save, an entry keeps the index its call was issued for.)
MinimalMonitorUpdates ==
    pc # "done" =>
        \A k \in DOMAIN calls :
            (calls[k].op = "update" /\ calls[k].src[1] # "groups") =>
                LET m == ListOf(cfg, calls[k].src[1])[calls[k].src[2]]
                    was == calls[k].was
                IN  \/ was.Description # m.Description
                    \/ was.NotificationIDs # TargetIDs(m, EmptySlice).elems

\* C6: an update of an existing group is sent only if the group's
\* description or notification ids differ from what the remote holds; a
\* group without notifications on both sides gets none.
MinimalGroupUpdates ==
    \A k \in DOMAIN calls :
        (calls[k].op = "update" /\ calls[k].src[1] = "groups") =>
            LET g == cfg.Groups[calls[k].src[2]]
                was == calls[k].was
            IN  \/ was.Description # g.Description
                \/ was.NotificationIDs # NotificationIDsOrEmpty(g.NotificationNames).elems

\* the entries for which the aborted run's create call succeeded
CreatedBefore == prev.created

EntityOf(s) == IF s.matched # 0 THEN s.matched ELSE s.created

\* C7: when a run was cut short after it had created entities and a complete
\* run follows without transport failure, the second run creates none of
\* those entities again, and every push monitor the first run created ends
\* with its local token equal to the remote one.  (Stated where the second
\* run has reconciled every entry and is about to save.)
RetrySafety ==
    (pc = "save" /\ prev.outcome = "aborted" /\ fails = 0 /\ CreatedBefore # {}) =>
        /\ \A k \in DOMAIN calls :
              calls[k].op = "create" => calls[k].src \notin CreatedBefore
        /\ \A i \in DOMAIN steps.push :
              <<"push", i>> \in CreatedBefore =>
                  cfg.PushMonitors[i].PushToken = remote[EntityOf(steps.push[i])].PushToken
        /\ \A i \in DOMAIN steps.legacy :
              (<<"legacy", i>> \in CreatedBefore /\ cfg.Monitors[i].Type = "push") =>
                  cfg.Monitors[i].PushToken = remote[EntityOf(steps.legacy[i])].PushToken

-----------------------------------------------------------------------------
(* Scenarios: adoption (C8) and creation (C9)                              *)

\* the remote entities, as the run found them, that carry a name
Named(name) == {e \in DOMAIN prev.remote : prev.remote[e].Name = name}

IsHex(token) == \A k \in DOMAIN token : token[k] \in Range(HexDigits)

\* C9: when the remote holds nothing and the configuration declares a group
\* and, in it, a push monitor whose name says CPU, with no metric, field or
\* threshold and no global CPU threshold, the run creates the group first
\* and then the monitor, with the new group's id as parent and a generated
\* token of 32 hex digits; the entry resolves to cpu / usage_user / 90.
\* (Stated until the save, while the directory still holds the entry as
\* declared.)
CreationScenario ==
    pc \in {"push", "http", "legacy", "save"} =>
        \A i \in DOMAIN steps.push :
            LET m0 == LoadMergedConfig(disk).PushMonitors[i]
                m == cfg.PushMonitors[i]
            IN  (/\ prev.remote = <<>>
                 /\ Contains(ToLower(m0.Name), MetricCPU)
                 /\ m0.Group # <<>>
                 /\ \E j \in DOMAIN cfg.Groups : cfg.Groups[j].Name = m0.Group
                 /\ m0.Metric = <<>> /\ m0.Field = "" /\ m0.Threshold = 0
                 /\ cfg.GlobalThresholds.CPU = 0) =>
                    /\ \E a, b \in DOMAIN calls :
                          /\ a < b
                          /\ calls[a].op = "create" /\ calls[a].kind = "group"
                          /\ calls[a].name = m0.Group /\ calls[a].ok
                          /\ calls[b].op = "create" /\ calls[b].kind = "push"
                          /\ calls[b].src = <<"push", i>> /\ calls[b].ok
                          /\ calls[b].name = m0.Name
                          /\ calls[b].parent = calls[a].id
                          /\ Len(calls[b].token) = 32 /\ IsHex(calls[b].token)
                          /\ remote[calls[a].id].Kind = "group"
                          /\ remote[calls[b].id].Parent = calls[a].id
                          /\ remote[calls[b].id].PushToken = calls[b].token
                    /\ m.Metric = MetricCPU
                    /\ m.Field = "usage_user"
                    /\ m.Threshold = DefaultThresholdCPU

\* groups H and G and the monitor CPU of group G created from nothing
CreationSeen ==
    /\ pc = "save"
    /\ prev.remote = <<>>
    /\ Len(remote) = 3
    /\ Len(cfg.Groups) = 2 /\ cfg.Groups[2].Name = NameG
    /\ Len(steps.push) = 1 /\ steps.push[1].created = 3
    /\ LoadMergedConfig(disk).PushMonitors[1].Name = NameCPU
    /\ LoadMergedConfig(disk).PushMonitors[1].Group = NameG
    /\ LoadMergedConfig(disk).PushMonitors[1].Metric = <<>>
    /\ remote[2].Name = NameG /\ remote[3].Parent = 2
    /\ Len(remote[3].PushToken) = 32
    /\ cfg.PushMonitors[1].Metric = MetricCPU
    /\ cfg.PushMonitors[1].Threshold = 90

-----------------------------------------------------------------------------
(* The dedupe law (C11)                                                    *)

\* the files in merge order: the base, then the fragments
Files == <<disk.base>> \o disk.frags

GroupIdent(g) == g.Name
MonitorIdent(m) == <<m.Name, m.Group>>
LegacyIdent(m) == m.Name

\* the entries of a list that carry an identity key
WithIdent(list, Ident(_), key) == {i \in DOMAIN list : Ident(list[i]) = key}

\* the law for one list: a key declared by two files has exactly one entry in
\* the merged list, the first entry of the earliest of these files
DedupeLawFor(Field(_), Ident(_)) ==
    \A a \in DOMAIN Files, b \in DOMAIN Files :
        a < b =>
            \A i \in DOMAIN Field(Files[a]), j \in DOMAIN Field(Files[b]) :
                LET key == Ident(Field(Files[a])[i])
                    first == CHOOSE f \in DOMAIN Files :
                                 /\ WithIdent(Field(Files[f]), Ident, key) # {}
                                 /\ \A e \in 1..(f - 1) :
                                        WithIdent(Field(Files[e]), Ident, key) = {}
                    kept == WithIdent(Field(cfg), Ident, key)
                IN  Ident(Field(Files[b])[j]) = key =>
                        /\ Cardinality(kept) = 1
                        /\ \A k \in kept :
                               Field(cfg)[k].Description = Ptr(FileTags[first])

GroupsOf(c) == c.Groups
PushMonitorsOf(c) == c.PushMonitors
HTTPMonitorsOf(c) == c.HTTPMonitors
MonitorsOf(c) == c.Monitors

\* C11: when two files declare a group of the same name, a push or http
\* monitor of the same (name, group) pair or a legacy monitor of the same name,
\* the merged list holds exactly one entry of that key, the one of the earlier
\* file
DedupeLaw ==
    pc = "merged" =>
        /\ DedupeLawFor(GroupsOf, GroupIdent)
        /\ DedupeLawFor(PushMonitorsOf, MonitorIdent)
        /\ DedupeLawFor(HTTPMonitorsOf, MonitorIdent)
        /\ DedupeLawFor(MonitorsOf, LegacyIdent)

-----------------------------------------------------------------------------
(* Idempotent metric resolution (C12)                                      *)

\* C12: for every entry and every global threshold setting, the entry after
\* two or more applications of the resolver is the entry after one
\* application: metric kind, field, filesystem and threshold included
ResolveIdempotent ==
    (pc = "resolve" /\ idx >= 1) => cfg = ResolveAllMetrics(disk.base)

\* a disk monitor named by its mount point, resolved twice: kind, field,
\* filesystem and the global disk threshold were filled by the first
\* application
ResolveTwiceSeen ==
    /\ pc = "resolve" /\ idx = 2
    /\ Len(disk.base.PushMonitors) = 1
    /\ disk.base.PushMonitors[1].Metric = <<>>
    /\ disk.base.PushMonitors[1].Field = ""
    /\ disk.base.PushMonitors[1].Filesystem = <<>>
    /\ disk.base.PushMonitors[1].Threshold = 0
    /\ cfg.PushMonitors[1].Metric = MetricDisk
    /\ cfg.PushMonitors[1].Field = "used_percent"
    /\ cfg.PushMonitors[1].Filesystem = FsRoot
    /\ cfg.PushMonitors[1].Threshold = 60

-----------------------------------------------------------------------------
(* One input descriptor per present kind (C13)                             *)

\* the eligible push monitors of the configuration the derivation reads
EligibleSet == {m \in Range(GetAllMonitors(cfg)) : Eligible(m)}

\* the input kind a metric kind belongs to
HasKind(m, kind) ==
    IF kind = NameDocker THEN Contains(ToLower(m.Metric), NameDocker)
    ELSE m.Metric = kind

\* the file exists and holds a rendering of this derivation
Written(name) == name \in DOMAIN telegrafDir /\ telegrafDir[name] # OldFile

InputKinds == {MetricCPU, MetricMem, MetricDisk, NameDocker}

InputWrittenIffPresent(kind) ==
    Written(InputFile(kind)) <=> \E m \in EligibleSet : HasKind(m, kind)

\* C13: after a derivation, the input file of each of cpu, mem, disk and
\* docker was written if and only if some eligible push monitor has that
\* kind; in particular the disk input is written whenever an eligible monitor
\* has kind disk
OneInputPerKind ==
    pc = "generated" => \A kind \in InputKinds : InputWrittenIffPresent(kind)

-----------------------------------------------------------------------------
(* One output artifact per eligible push monitor (C14)                     *)

\* the eligible push monitors, one element per list entry
EligibleList == SelectSeq(GetAllMonitors(cfg), Eligible)

\* the per-monitor output files this derivation left
OutputFiles ==
    {n \in DOMAIN telegrafDir : telegrafDir[n].template = "outputs_exec_push"}

HoldsOutputOf(n, m) ==
    /\ telegrafDir[n].data.MonitorName = m.Name
    /\ telegrafDir[n].data.Group = m.Group
    /\ telegrafDir[n].data.Token = m.PushToken

\* C14: after a derivation for n eligible push monitors the directory holds n
\* per-monitor output files, one for each monitor, also for monitors of the
\* same name in different groups or of names that the file-name derivation
\* maps to the same text
OneOutputPerMonitor ==
    pc = "generated" =>
        /\ Cardinality(OutputFiles) = Len(EligibleList)
        /\ \A i \in DOMAIN EligibleList :
               \E n \in OutputFiles : HoldsOutputOf(n, EligibleList[i])

-----------------------------------------------------------------------------
(* Disk mount aggregation (C15)                                            *)

\* the eligible disk monitors that name a filesystem
DiskMonitors == {m \in EligibleSet : m.Metric = MetricDisk /\ m.Filesystem # <<>>}

MountPointList == telegrafDir[InputFile(MetricDisk)].data

Ascending(list) ==
    \A i, j \in DOMAIN list : i < j => StringLess(list[i], list[j])

\* C15 as stated: the mount points of the disk input are the distinct
\* filesystem paths of the eligible disk monitors, without duplicates, in
\* ascending order
DiskMountsAreFilesystems ==
    Written(InputFile(MetricDisk)) =>
        /\ Range(MountPointList) = {m.Filesystem : m \in DiskMonitors}
        /\ Ascending(MountPointList)

\* C15 amended: the mount points of the disk input are the filesystem paths
\* of the eligible disk monitors with surrounding white space removed, each
\* once, in ascending byte order, whatever the order of the monitors
DiskMountsAreTrimmedFilesystems ==
    Written(InputFile(MetricDisk)) =>
        /\ Range(MountPointList) = {TrimSpace(m.Filesystem) : m \in DiskMonitors}
        /\ Ascending(MountPointList)

\* the data path, the root path and the root path again with a leading blank,
\* in this order, aggregated to the root path and the data path
DiskMountsSeen ==
    /\ pc = "generated"
    /\ Len(cfg.PushMonitors) = 3
    /\ cfg.PushMonitors[1].Filesystem = FsData
    /\ cfg.PushMonitors[2].Filesystem = FsRoot
    /\ cfg.PushMonitors[3].Filesystem = <<" ", "/">>
    /\ Written(InputFile(MetricDisk))
    /\ MountPointList = <<FsRoot, FsData>>

-----------------------------------------------------------------------------
(* Filename sanitization (C16)                                             *)

\* the part of an output file name between the prefix and the suffix
NamePart(n) == SubSeq(n, Len(OutputPrefix) + 1, Len(n) - Len(ConfSuffix))

WellFormedName(p) ==
    /\ Len(p) >= 1 /\ Len(p) <= MaxFilename
    /\ \A i \in DOMAIN p :
           p[i] \in Range(LowerCase) \cup Range(Digits) \cup {"_", "-"}
    /\ p[1] # "-" /\ p[Len(p)] # "-"
    /\ \A i \in 1..(Len(p) - 1) : ~(p[i] = "-" /\ p[i + 1] = "-")

\* C16: the name part of every output file the derivation writes for a
\* monitor is the sanitized monitor name: non-empty, at most 50 characters of
\* [a-z0-9_-], no hyphen at either end, no two hyphens in a row
OutputNamesSanitized ==
    \A n \in OutputFiles :
        /\ HasPrefix(n, OutputPrefix) /\ HasSuffix(n, ConfSuffix)
        /\ NamePart(n) = SanitizeFilename(telegrafDir[n].data.MonitorName)
        /\ WellFormedName(NamePart(n))

-----------------------------------------------------------------------------
(* Clean-then-regenerate on inputs only (C17)                              *)

IsInputName(n) == HasPrefix(n, InputPrefix) /\ HasSuffix(n, ConfSuffix)

\* the files present before the derivation that the cleanup removed
Deleted == DOMAIN derive.before \ DOMAIN telegrafDir

\* the input files the eligible monitors need
NeededInputs ==
    {InputFile(kind) : kind \in {k \in InputKinds : \E m \in EligibleSet : HasKind(m, k)}}

DeletesExactlyInputs ==
    pc = "collect" => Deleted = {n \in DOMAIN derive.before : IsInputName(n)}

NoStaleInput ==
    pc = "generated" => {n \in DOMAIN telegrafDir : IsInputName(n)} = NeededInputs

OthersStillPresent ==
    pc = "generated" =>
        \A n \in DOMAIN derive.before : ~IsInputName(n) => n \in DOMAIN telegrafDir

\* C17: the cleanup deletes exactly the files named 05-inputs-*.conf; after a
\* successful derivation the input files present are exactly those the
\* monitor set needs; every other file present before is still present
CleanThenRegenerate ==
    /\ DeletesExactlyInputs
    /\ NoStaleInput
    /\ OthersStillPresent

-----------------------------------------------------------------------------
(* HTTP monitor without URL (C18)                                          *)

\* the entry the run is about to reconcile, and the entity it matches (0: none)
AtEntry == pc \in {"http", "legacy"} /\ idx <= Len(ListOf(cfg, pc))
CurrentEntry ==
    IF pc = "http" THEN [cfg.HTTPMonitors[idx] EXCEPT !.Type = "http"]
    ELSE cfg.Monitors[idx]
CurrentMatch ==
    IF pc = "http" THEN LookupGrouped(CurrentEntry) ELSE LookupLegacy(CurrentEntry)

HTTPWithoutURL(m) == m.Type = "http" /\ m.URL = ""

\* the http monitors of the effective configuration: http list and legacy list
HTTPMonitorsOfRun == {m \in Range(GetAllMonitors(cfg)) : m.Type = "http"}

\* C18 as stated: a run whose effective configuration holds an HTTP monitor
\* with an empty URL does not end in success
MissingURLFatal ==
    pc = "done" => \A m \in HTTPMonitorsOfRun : ~HTTPWithoutURL(m)

MissingURLStep ==
    (AtEntry /\ HTTPWithoutURL(CurrentEntry)) =>
        IF CurrentMatch = 0
        THEN /\ calls' = calls /\ remote' = remote
             /\ \/ pc' = "aborted"
                \/ pc' = "failed" /\ err' = Error("missing url", CurrentEntry.Name)
        ELSE pc' # "failed"

\* C18 amended: the run fails with an error naming the monitor, and issues no
\* call, when it reaches an HTTP monitor with an empty URL that matches no
\* entity of the snapshot; one that matches an entity is updated and the run
\* goes on
MissingURLFatalOnCreate == [][MissingURLStep]_vars

\* the http monitor web without URL stopped a run on an empty remote service
MissingURLSeen ==
    /\ pc = "failed"
    /\ err = Error("missing url", NameWeb)
    /\ Len(cfg.HTTPMonitors) = 1
    /\ cfg.HTTPMonitors[1].URL = ""
    /\ steps.http = <<>>
    /\ \A k \in DOMAIN calls : calls[k].kind = "group"
    /\ \A i \in DOMAIN remote : remote[i].Name # NameWeb

-----------------------------------------------------------------------------
(* Unsupported kind (C19)                                                  *)

Supported(m) == m.Type \in {"push", "http"}

\* C19 as stated: a run whose effective configuration holds an entry of a
\* kind other than push or http does not end in success, whether the entry
\* matches a remote entity or not
UnsupportedTypeFatal ==
    pc = "done" => \A m \in Range(GetAllMonitors(cfg)) : Supported(m)

UnsupportedTypeStep ==
    (AtEntry /\ ~Supported(CurrentEntry)) =>
        /\ calls' = calls /\ remote' = remote
        /\ IF CurrentMatch = 0
           THEN \/ pc' = "aborted"
                \/ /\ pc' = "failed"
                   /\ err' = Error("unsupported type", <<CurrentEntry.Type>>)
           ELSE pc' # "failed"

\* what the code does instead: the run fails with an error naming the kind,
\* and issues no call, when it reaches an entry of a kind other than push or
\* http whose name matches no entity of the snapshot; for one whose name
\* matches an entity the update is skipped and the run goes on
UnsupportedTypeFatalOnCreate == [][UnsupportedTypeStep]_vars

\* the legacy entry CPU of kind ping stopped a run that found no entity CPU
UnsupportedTypeSeen ==
    /\ pc = "failed"
    /\ err = Error("unsupported type", <<"ping">>)
    /\ cfg.PushMonitors = <<>>
    /\ Len(cfg.Monitors) = 1
    /\ cfg.Monitors[1].Type = "ping"
    /\ cfg.Monitors[1].Name \notin DOMAIN existingByName
    /\ steps.legacy = <<>>

-----------------------------------------------------------------------------
(* Failures on the update path (C20)                                       *)

MonitorPhases == {"push", "http", "legacy"}

\* the run is at a monitor entry that matches an entity of the snapshot
AtMatchedEntry ==
    /\ pc \in MonitorPhases
    /\ IF pc = "legacy" THEN LookupLegacy(cfg.Monitors[idx]) # 0
       ELSE LookupGrouped(ListOf(cfg, pc)[idx]) # 0

\* whatever its fetches and its update call answer, the step at a matched
\* entry goes on to the next entry and raises no error
UpdateStepGoesOn ==
    AtMatchedEntry =>
        \/ pc' = "aborted"
        \/ /\ <<pc', idx'>> = After(cfg, pc, idx)
           /\ err' = err

\* a run that got past the monitor lists has handled every entry of each
AllReconciled ==
    pc \in {"save", "done"} =>
        \A phase \in MonitorPhases : Len(steps[phase]) = Len(ListOf(cfg, phase))

\* the failures that end a run
FatalConditions ==
    {"snapshot", "create group", "create monitor", "missing url", "unsupported type"}

\* C20: a failed fetch or update call for a monitor that matched a remote
\* entity does not abort the run: the run goes on to the next entry, every
\* entry of every list is handled before the run ends in success, and a run
\* that fails does so for a snapshot, create or configuration error only
UpdateFailuresRecovered ==
    /\ [][UpdateStepGoesOn]_vars
    /\ [](AllReconciled /\ (pc = "failed" => err.what \in FatalConditions))

\* a run ended in success although the update call of a matched monitor
\* failed, and entries came after that monitor
UpdateFailureSeen ==
    /\ pc = "done"
    /\ \E phase \in MonitorPhases : \E i \in DOMAIN steps[phase] :
          /\ steps[phase][i].matched # 0
          /\ \E k \in DOMAIN calls :
                calls[k].op = "update" /\ ~calls[k].ok /\ calls[k].src = <<phase, i>>
          /\ After(cfg, phase, i)[1] # "save"

-----------------------------------------------------------------------------
(* Snapshot and create failures (C21)                                      *)

FailedCreate(k) == calls[k].op = "create" /\ ~calls[k].ok

\* a failed create call is the last call of its run, and the run has failed
\* with the error of that create
FailedCreateIsLast ==
    \A k \in DOMAIN calls :
        FailedCreate(k) =>
            /\ k = Len(calls)
            /\ pc = "failed"
            /\ err = Error(IF calls[k].kind = "group" THEN "create group"
                           ELSE "create monitor", calls[k].name)

\* a run whose snapshot failed has issued no call
FailedSnapshotIsLast ==
    (pc = "failed" /\ err.what = "snapshot") => calls = <<>>

\* a failed run changes nothing on the remote service any more
FailedRunIsOver == pc = "failed" => (remote' = remote /\ calls' \in {calls, <<>>})

\* C21: when the snapshot fetch, a group create or a monitor create fails,
\* the run ends with that error at that point, and no create or update call
\* is issued afterwards
CreateFailuresFatal ==
    /\ [](FailedCreateIsLast /\ FailedSnapshotIsLast)
    /\ [][FailedRunIsOver]_vars

\* a monitor create failed after an earlier call of the run had succeeded, and
\* the entries that come after that monitor were never reached
CreateFailureSeen ==
    /\ pc = "failed"
    /\ Len(calls) >= 2
    /\ FailedCreate(Len(calls))
    /\ calls[Len(calls)].kind # "group"
    /\ calls[Len(calls)].src = <<calls[Len(calls)].src[1], idx>>
    /\ After(cfg, calls[Len(calls)].src[1], idx)[1] # "save"

-----------------------------------------------------------------------------
(* Failure of the final save (C22)                                         *)

TokenPhases == {"push", "legacy"}

TokenEntry(c, phase, i) ==
    <<phase, ListOf(c, phase)[i].Name, ListOf(c, phase)[i].Group,
      ListOf(c, phase)[i].PushToken>>

\* the entries whose token the run has set: list, name, group and token
AdoptedTokens(c, st) ==
    UNION {{TokenEntry(c, phase, i) :
               i \in {j \in DOMAIN ListOf(c, phase) :
                         /\ j \in DOMAIN st[phase]
                         /\ ListOf(c, phase)[j].PushToken # st[phase][j].local0}} :
           phase \in TokenPhases}

\* the tokens the configuration holds, by list, name and group
HeldTokens(c) ==
    UNION {{TokenEntry(c, phase, i) : i \in DOMAIN ListOf(c, phase)} :
           phase \in TokenPhases}

\* the write of SaveConfig fails
WriteFails == pc = "save" /\ configUpdated /\ fails' > fails

WriteFailureStep ==
    WriteFails =>
        /\ pc' = "done" /\ err' = NoError
        /\ remote' = remote /\ calls' = calls
        /\ disk' = disk
        /\ AdoptedTokens(cfg, steps) \subseteq HeldTokens(cfg')

\* C22: when the write of the configuration fails at the end of a run, the run
\* ends in success, the remote service is left as it is, and every token the
\* run adopted is still in the configuration in memory
WriteFailureRecovered == [][WriteFailureStep]_vars

\* no list of the configuration in memory declares an identity key twice
NoDuplicateKeys == deduplicateMonitors(cfg) = cfg

\* what holds instead: the same, for the runs whose lists declare no identity
\* key twice (SaveConfig deduplicates the lists in memory before it writes)
WriteFailureRecoveredWithoutDuplicates ==
    [][NoDuplicateKeys => WriteFailureStep]_vars

-----------------------------------------------------------------------------
(* The remote token on update (C23)                                        *)

MonitorUpdate(k) == calls[k].op = "update" /\ calls[k].kind # "group"

\* an update call carries no token or the token the entity was fetched with
UpdateCarriesStoredToken ==
    \A k \in DOMAIN calls :
        MonitorUpdate(k) => calls[k].token \in {<<>>, calls[k].was.PushToken}

\* no step changes the token of an entity the remote service holds
RemoteTokenKept ==
    \A id \in DOMAIN remote :
        id \in DOMAIN remote' /\ remote'[id].PushToken = remote[id].PushToken

\* C23: no update call for an existing monitor carries a push token other than
\* the one the remote service stores for it, and the token of an existing
\* entity is never changed by a run, whatever token the entry holds locally
RemoteTokenNeverWritten ==
    /\ []UpdateCarriesStoredToken
    /\ [][RemoteTokenKept]_vars

\* a push entry holding one token was matched to a monitor storing another,
\* an update was sent for it and succeeded, and the monitor still stores its own
RemoteTokenSeen ==
    \E i \in DOMAIN steps.push : \E k \in DOMAIN calls :
        /\ steps.push[i].matched # 0
        /\ steps.push[i].local0 # <<>>
        /\ steps.push[i].was.PushToken # <<>>
        /\ steps.push[i].local0 # steps.push[i].was.PushToken
        /\ MonitorUpdate(k) /\ calls[k].ok /\ calls[k].src = <<"push", i>>
        /\ calls[k].token = steps.push[i].was.PushToken
        /\ remote[steps.push[i].matched].PushToken = steps.push[i].was.PushToken
        /\ remote[steps.push[i].matched] # steps.push[i].was

-----------------------------------------------------------------------------
(* Runs over configurations that fill every list: two groups, two push     *)
(* monitors of one name in the two groups, an http monitor and a legacy    *)
(* entry that names a group                                                *)

NameLeg == <<"l","e","g">>

TwoGroups == <<GroupEntry(NameG, NilStr, <<"n1">>), GroupEntry(NameH, NilStr, <<>>)>>

FullConfig(groups) ==
    BaseConfig(groups,
        <<PushEntry(NameCPU, groups[1].Name, NilStr, <<>>, <<>>),
          PushEntry(NameCPU, groups[2].Name, NilStr, <<>>, TokenA)>>,
        <<HTTPEntry(NameWeb, NameH, NilStr, "http://web")>>,
        <<[LegacyEntry("push", NameLeg, NilStr, "", <<>>) EXCEPT !.Group = NameH]>>,
        0)

\* entries that name no group or a group that is not declared
LooseConfig(groups) ==
    BaseConfig(groups,
        <<PushEntry(NameCPU, <<>>, NilStr, <<>>, <<>>),
          PushEntry(NameLeg, NameWeb, NilStr, <<>>, <<>>)>>,
        <<HTTPEntry(NameWeb, <<>>, NilStr, "http://web")>>,
        <<LegacyEntry("http", NameG, NilStr, "http://web", <<>>)>>,
        0)


\* what the server holds when a run starts: nothing; the monitors named CPU
\* under each group and under none, and web under G; H missing and web under
\* G; the groups in the other order and the legacy entry present
FullRemoteStates ==
    <<<<>>,
      <<RemoteGroupG, Entity(NameH, "group", 0, NilStr, <<>>, <<>>),
        Entity(NameCPU, "push", 1, NilStr, <<>>, TokenB),
        Entity(NameCPU, "push", 2, Ptr("d1"), <<>>, TokenA),
        Entity(NameCPU, "push", 0, NilStr, <<>>, TokenB),
        Entity(NameWeb, "http", 1, NilStr, <<>>, <<>>)>>,
      <<RemoteGroupG, Entity(NameWeb, "http", 1, NilStr, <<>>, <<>>)>>,
      <<Entity(NameH, "group", 0, NilStr, <<>>, <<>>), RemoteGroupG,
        Entity(NameCPU, "push", 1, NilStr, <<>>, TokenA),
        Entity(NameWeb, "http", 1, Ptr("d1"), <<>>, <<>>),
        Entity(NameLeg, "push", 0, NilStr, <<>>, TokenB)>>>>

\* the configuration file and the server state a run starts from
FullStarts ==
    {<<FullConfig(TwoGroups), FullRemoteStates[i]>> : i \in {1, 2, 4}}
    \cup {<<FullConfig(<<TwoGroups[2], TwoGroups[1]>>), FullRemoteStates[4]>>}
    \cup {<<LooseConfig(TwoGroups), FullRemoteStates[i]>> : i \in {3, 4}}
    \cup {<<LooseConfig(<<>>), FullRemoteStates[i]>> : i \in {1, 3}}

InitFull ==
    /\ \E s \in FullStarts :
          /\ disk = [base |-> s[1], frags |-> <<>>]
          /\ remote = s[2]
    /\ emptyIDsNil \in BOOLEAN
    /\ cfg = EmptyConfig
    /\ pc = "idle"
    /\ idx = 1
    /\ existingByName = <<>>
    /\ existingByNameAndGroup = <<>>
    /\ groupNameToID = <<>>
    /\ configUpdated = FALSE
    /\ calls = <<>>
    /\ steps = NoSteps
    /\ runs = 0
    /\ fails = 0
    /\ prev = [outcome |-> "none", created |-> {}, remote |-> remote]
    /\ telegrafDir = <<>>
    /\ derive = NoDerive
    /\ peer = NoPeer
    /\ notifications = Notifications
    /\ err = NoError

SpecFull == InitFull /\ [][Next]_vars

-----------------------------------------------------------------------------
(* Grouped identity matching (C24)                                         *)

GroupedPhases == {"push", "http"}

\* the entries of the push and http lists the run has handled so far
Handled ==
    UNION {{<<phase, i>> : i \in DOMAIN steps[phase]} : phase \in GroupedPhases}

EntryAt(p) == ListOf(cfg, p[1])[p[2]]
StepAt(p) == steps[p[1]][p[2]]

\* the entry names a group the configuration declares
DeclaresGroup(m) ==
    /\ m.Group # <<>>
    /\ \E g \in DOMAIN cfg.Groups : cfg.Groups[g].Name = m.Group
    /\ m.Group \in DOMAIN groupNameToID

\* an entry of a declared group is matched only to an entity of its name whose
\* parent is the id of that group
MatchedUnderGroup ==
    \A p \in Handled :
        (DeclaresGroup(EntryAt(p)) /\ StepAt(p).matched # 0) =>
            /\ StepAt(p).was.Name = EntryAt(p).Name
            /\ StepAt(p).was.Parent = groupNameToID[EntryAt(p).Group]
            /\ StepAt(p).was.Parent # 0

\* entries of one name in different declared groups get different entities
DistinctUnderGroups ==
    \A p, q \in Handled :
        (/\ DeclaresGroup(EntryAt(p)) /\ DeclaresGroup(EntryAt(q))
         /\ EntryAt(p).Name = EntryAt(q).Name
         /\ EntryAt(p).Group # EntryAt(q).Group) =>
            EntityOf(StepAt(p)) # EntityOf(StepAt(q))

\* C24: a push or http monitor of a declared group is an update only when the
\* snapshot holds an entity of its name whose parent is the id of that group,
\* never for a same-named entity under another group or under none; monitors
\* of one name in different declared groups are reconciled against different
\* entities
GroupedIdentity == MatchedUnderGroup /\ DistinctUnderGroups

\* CPU of G and CPU of H were both matched, each to the monitor under its own
\* group, while the remote service also held a monitor CPU under no group
GroupedIdentitySeen ==
    /\ pc = "done"
    /\ Len(steps.push) = 2
    /\ steps.push[1].matched # 0 /\ steps.push[2].matched # 0
    /\ steps.push[1].matched # steps.push[2].matched
    /\ cfg.PushMonitors[1].Name = cfg.PushMonitors[2].Name
    /\ cfg.PushMonitors[1].Group # cfg.PushMonitors[2].Group
    /\ \E id \in DOMAIN remote :
          remote[id].Name = cfg.PushMonitors[1].Name /\ remote[id].Parent = 0

-----------------------------------------------------------------------------
(* Failures of group operations (C25)                                      *)

\* a remote operation of the group loop fails
GroupOperationFails == pc = "groups" /\ fails' > fails

GroupFailureStep == GroupOperationFails => (pc' = "failed" /\ err' # NoError)

\* C25: a failed create, detail fetch or update of a declared group ends the
\* run with an error
GroupFailuresFatal == [][GroupFailureStep]_vars

\* what the code does: of the group operations only a failed create ends the
\* run; after a failed fetch or update of an existing group the loop goes on
GroupCreateFailureStep ==
    GroupOperationFails =>
        IF cfg.Groups[idx].Name \in DOMAIN existingByName
        THEN <<pc', idx'>> = After(cfg, "groups", idx) /\ err' = err
        ELSE pc' = "failed" /\ err' = Error("create group", cfg.Groups[idx].Name)

OnlyGroupCreateFatal == [][GroupCreateFailureStep]_vars

-----------------------------------------------------------------------------
(* Target notification ids on update (C26)                                 *)

\* the entity the entry the run is at was matched to
MatchedID ==
    IF pc = "legacy" THEN LookupLegacy(cfg.Monitors[idx])
    ELSE LookupGrouped(ListOf(cfg, pc)[idx])

\* the notification ids of the group an entry names
GroupNotificationIDs(m) ==
    IF \E g \in DOMAIN cfg.Groups : cfg.Groups[g].Name = m.Group
    THEN LET g == CHOOSE g \in DOMAIN cfg.Groups : cfg.Groups[g].Name = m.Group
         IN  NotificationIDsOrEmpty(cfg.Groups[g].NotificationNames).elems
    ELSE <<>>

\* the ids of the entry's own notification names, else those of its group
ExpectedIDs(m) ==
    IF Len(m.NotificationNames) > 0
    THEN ResolveNotificationIDs(m.NotificationNames).elems
    ELSE GroupNotificationIDs(m)

\* the ids of the entry's own notification names, else none
OwnIDs(m) == NotificationIDsOrEmpty(m.NotificationNames).elems

\* the step at a matched entry fetched the entity and nothing failed
UpdateDone ==
    /\ AtMatchedEntry
    /\ pc' # "aborted"
    /\ fails' = fails
    /\ steps'[pc][idx].baseRead

\* C26: after the update of a monitor matched to an existing entity, the
\* entity has the notification ids resolved from the monitor's own names when
\* it declares any, and otherwise the notification ids of the monitor's group
TargetIDsOnUpdate ==
    [][UpdateDone =>
          remote'[MatchedID].NotificationIDs = ExpectedIDs(ListOf(cfg, pc)[idx])]_vars

\* what the code does: a monitor that declares no notification names is
\* updated to no notification at all
OwnIDsOnUpdate ==
    [][UpdateDone =>
          remote'[MatchedID].NotificationIDs = OwnIDs(ListOf(cfg, pc)[idx])]_vars

-----------------------------------------------------------------------------
(* What triggers the final save (C27)                                      *)

\* the data of an entry a run may change: what the resolver fills in, and
\* the token
DataOf(m) == <<m.Metric, m.Field, m.Filesystem, m.Threshold, m.PushToken>>

TokenOf(m) == m.PushToken

\* the entries of the configuration in memory that differ from what was loaded
ChangedData ==
    {p \in MonitorPhases \X (1..2) :
        /\ p[2] \in DOMAIN ListOf(cfg, p[1])
        /\ DataOf(ListOf(cfg, p[1])[p[2]]) #
              DataOf(ListOf(LoadMergedConfig(disk), p[1])[p[2]])}

ChangedTokens ==
    {p \in MonitorPhases \X (1..2) :
        /\ p[2] \in DOMAIN ListOf(cfg, p[1])
        /\ TokenOf(ListOf(cfg, p[1])[p[2]]) #
              TokenOf(ListOf(LoadMergedConfig(disk), p[1])[p[2]])}

\* the run ends and SaveConfig is called: the base file now holds the
\* deduplicated configuration, or the write failed
Ends == pc = "save" /\ pc' = "done"
ConfigWritten == disk'.base = deduplicateMonitors(cfg) \/ fails' > fails

\* C27 as stated: the configuration is written back at the end of every run
\* in which a token or other monitor data (metric kind, field, filesystem,
\* threshold) of the configuration changed
SavedWhenDataChanged == [][(Ends /\ ChangedData # {}) => ConfigWritten]_vars

\* C27 amended: the configuration is written back at the end of every run in
\* which a push token of the configuration changed, and a run in which no
\* token was adopted or read back leaves the base file as it is, whatever the
\* resolver filled in
SavedWhenTokenChanged ==
    [][/\ (Ends /\ ChangedTokens # {}) => ConfigWritten
       /\ (Ends /\ ~configUpdated) => disk' = disk]_vars

\* a run that adopted a token has written the configuration with it
SavedTokenSeen ==
    /\ pc = "done"
    /\ configUpdated
    /\ fails = 0
    /\ disk.base = cfg
    /\ \E i \in DOMAIN steps.push :
          /\ steps.push[i].matched # 0
          /\ steps.push[i].local0 # cfg.PushMonitors[i].PushToken
          /\ remote[steps.push[i].matched].PushToken = cfg.PushMonitors[i].PushToken

-----------------------------------------------------------------------------
(* Parent on create (C28)                                                  *)

\* the run is at a monitor entry and issues a create call for it
Creates ==
    /\ pc \in MonitorPhases
    /\ Len(calls') = Len(calls) + 1
    /\ calls'[Len(calls')].op = "create"

SentParent == calls'[Len(calls')].parent

FirstDeclared ==
    IF Len(cfg.Groups) > 0 THEN groupNameToID[cfg.Groups[1].Name] ELSE 0

\* the declared group, else the first declared group for an entry that names
\* none, else no parent
DeclaredParent(m) ==
    IF DeclaresGroup(m) THEN groupNameToID[m.Group]
    ELSE IF m.Group = <<>> THEN FirstDeclared
    ELSE 0

\* C28 as stated: every monitor created gets the id of its declared group,
\* else that of the first declared group when it names no group, else no
\* parent; and an entry of the legacy list gets the first declared group
ParentOfEveryCreate ==
    [][Creates =>
          /\ SentParent = DeclaredParent(ListOf(cfg, pc)[idx])
          /\ pc = "legacy" => SentParent = FirstDeclared]_vars

\* C28 amended: every push or http monitor created gets the id of its declared
\* group, else that of the first declared group when it names no group, else
\* no parent; an entry of the legacy list gets the first declared group, or no
\* parent when no group is declared, whatever group the entry names
ParentOfCreate ==
    [][Creates =>
          SentParent = IF pc = "legacy" THEN FirstDeclared
                       ELSE DeclaredParent(ListOf(cfg, pc)[idx])]_vars

\* a push monitor was created under the second declared group, which it
\* names, and a legacy entry naming that group under the first
ParentOfCreateSeen ==
    /\ pc = "save"
    /\ Len(cfg.Groups) = 2
    /\ \E k, l \in DOMAIN calls :
          /\ calls[k].op = "create" /\ calls[k].ok /\ calls[k].src = <<"push", 2>>
          /\ cfg.PushMonitors[2].Group = cfg.Groups[2].Name
          /\ calls[k].parent = groupNameToID[cfg.Groups[2].Name]
          /\ calls[l].op = "create" /\ calls[l].ok /\ calls[l].src = <<"legacy", 1>>
          /\ cfg.Monitors[1].Group = cfg.Groups[2].Name
          /\ calls[l].parent = groupNameToID[cfg.Groups[1].Name]
          /\ calls[k].parent # calls[l].parent

-----------------------------------------------------------------------------
(* Entries of a group that is not declared (C29)                           *)

\* the run is at a push or http entry that names a group no declared group has
AtUnknownGroup ==
    /\ pc \in GroupedPhases
    /\ ListOf(cfg, pc)[idx].Group # <<>>
    /\ \A g \in DOMAIN cfg.Groups : cfg.Groups[g].Name # ListOf(cfg, pc)[idx].Group

NameAtEntry == ListOf(cfg, pc)[idx].Name

IssuesCall == Len(calls') = Len(calls) + 1

UnknownGroupStep ==
    (AtUnknownGroup /\ pc' # "aborted") =>
        IF NameAtEntry \in DOMAIN existingByName
        THEN /\ pc' # "failed"
             /\ steps'[pc][idx].matched = existingByName[NameAtEntry]
             /\ IssuesCall => calls'[Len(calls')].op = "update"
        ELSE /\ IssuesCall =>
                   /\ calls'[Len(calls')].op = "create"
                   /\ calls'[Len(calls')].parent = 0
             /\ pc' = "failed" => err'.what \in {"create monitor", "missing url"}
             /\ pc' # "failed" => (IssuesCall /\ calls'[Len(calls')].ok)

\* C29: a push or http monitor whose group is not declared does not fail the
\* run on that account; it is matched to the entity of the snapshot that has
\* its name, whatever the parent, and when there is none it is created with
\* no parent
UnknownGroupUngrouped == [][UnknownGroupStep]_vars

\* a monitor naming an undeclared group was created with no parent although a
\* group is declared
UnknownGroupSeen ==
    /\ pc \in {"save", "done"}
    /\ Len(cfg.Groups) > 0
    /\ Len(cfg.PushMonitors) = 1
    /\ cfg.PushMonitors[1].Group # <<>>
    /\ cfg.PushMonitors[1].Group \notin DOMAIN groupNameToID
    /\ \E k \in DOMAIN calls :
          /\ calls[k].op = "create" /\ calls[k].ok
          /\ calls[k].src = <<"push", 1>>
          /\ calls[k].parent = 0

-----------------------------------------------------------------------------
(* Processing order (C30)                                                  *)

\* groups, then the push list, then the http list, then the legacy list
OrderNo(phase) ==
    CASE phase = "groups" -> 1
      [] phase = "push" -> 2
      [] phase = "http" -> 3
      [] phase = "legacy" -> 4
      [] phase = "save" -> 5

\* entry a comes no later than entry b
NoLater(a, b) ==
    \/ OrderNo(a[1]) < OrderNo(b[1])
    \/ a[1] = b[1] /\ a[2] <= b[2]

\* the calls of a run are issued in the order of the entries they are for
CallsInOrder ==
    \A k, l \in DOMAIN calls :
        k < l => NoLater(calls[k].src, calls[l].src)

\* the calls of the group loop, and only they, are calls for a group
GroupCallsFirst ==
    \A k \in DOMAIN calls :
        /\ calls[k].src[1] = "groups" <=> calls[k].kind = "group"
        /\ calls[k].src[1] \in MonitorPhases =>
              \A l \in DOMAIN calls : calls[l].kind = "group" => l < k

\* a run goes from an entry to the next one of its list, or to the first
\* entry of the next list that has one
EntriesInOrder ==
    (pc \in {"groups"} \cup MonitorPhases /\ pc' \in {"groups", "save"} \cup MonitorPhases) =>
        /\ NoLater(<<pc, idx>>, <<pc', idx'>>)
        /\ <<pc, idx>> # <<pc', idx'>>
        /\ <<pc', idx'>> = After(cfg, pc, idx)

\* C30: in every run the group calls precede every monitor call, and the
\* monitor entries are reconciled in the order push list, http list, legacy
\* list, each list in configuration order, so that no call for an http or
\* legacy entry precedes a call for a push entry
ProcessingOrder ==
    /\ [](CallsInOrder /\ GroupCallsFirst)
    /\ [][EntriesInOrder]_vars

\* a run has issued calls for two groups, two push entries, the http entry and
\* the legacy entry
ProcessingOrderSeen ==
    /\ pc = "save"
    /\ Len(calls) = 6
    /\ {calls[k].src : k \in DOMAIN calls} =
          {<<"groups", 1>>, <<"groups", 2>>, <<"push", 1>>, <<"push", 2>>,
           <<"http", 1>>, <<"legacy", 1>>}

-----------------------------------------------------------------------------
(* Two agent processes started against one remote service and one          *)
(* configuration directory.  Each process runs run() on its own locals;    *)
(* peer holds the locals of the process that is not stepping.              *)

Locals ==
    [cfg |-> cfg, pc |-> pc, idx |-> idx, existingByName |-> existingByName,
     existingByNameAndGroup |-> existingByNameAndGroup,
     groupNameToID |-> groupNameToID, configUpdated |-> configUpdated,
     calls |-> calls, steps |-> steps, err |-> err]

\* the scheduler passes from one process to the other
Switch ==
    /\ peer # Locals
    /\ peer' = Locals
    /\ cfg' = peer.cfg
    /\ pc' = peer.pc
    /\ idx' = peer.idx
    /\ existingByName' = peer.existingByName
    /\ existingByNameAndGroup' = peer.existingByNameAndGroup
    /\ groupNameToID' = peer.groupNameToID
    /\ configUpdated' = peer.configUpdated
    /\ calls' = peer.calls
    /\ steps' = peer.steps
    /\ err' = peer.err
    /\ UNCHANGED <<disk, remote, emptyIDsNil, notifications, runs, fails, prev, telegrafDir, derive>>

\* one push monitor, declared in a group or in none
SharedConfigs ==
    {BaseConfig(<<GroupEntry(NameG, NilStr, <<>>)>>,
                <<PushEntry(NameCPU, NameG, NilStr, <<>>, <<>>)>>, <<>>, <<>>, 0),
     BaseConfig(<<>>, <<PushEntry(NameCPU, <<>>, NilStr, <<>>, <<>>)>>, <<>>, <<>>, 0)}

SharedRemoteStates == {<<>>, <<RemoteGroupG>>}

InitConcurrent ==
    /\ \E c \in SharedConfigs, r \in SharedRemoteStates :
          /\ disk = [base |-> c, frags |-> <<>>]
          /\ remote = r
    /\ emptyIDsNil \in BOOLEAN
    /\ cfg = EmptyConfig
    /\ pc = "idle"
    /\ idx = 1
    /\ existingByName = <<>>
    /\ existingByNameAndGroup = <<>>
    /\ groupNameToID = <<>>
    /\ configUpdated = FALSE
    /\ calls = <<>>
    /\ steps = NoSteps
    /\ runs = 0
    /\ fails = 0
    /\ prev = [outcome |-> "none", created |-> {}, remote |-> remote]
    /\ telegrafDir = <<>>
    /\ derive = NoDerive
    /\ peer = NoPeer
    /\ notifications = Notifications
    /\ err = NoError

NextConcurrent ==
    \/ Start
    \/ GroupUpdate
    \/ GroupCreate
    \/ PushUpdate
    \/ PushCreate
    \/ Save
    \/ Abort
    \/ Switch

SpecConcurrent == InitConcurrent /\ [][NextConcurrent]_vars

-----------------------------------------------------------------------------
(* Concurrent runs (C31)                                                   *)

\* the snapshot of the stepping process holds the identity of push entry m
InSnapshot(m) ==
    IF m.Group # <<>> /\ m.Group \in DOMAIN groupNameToID
    THEN <<m.Name, groupNameToID[m.Group]>> \in DOMAIN existingByNameAndGroup
    ELSE m.Name \in DOMAIN existingByName

\* the stepping process handles the push entry it is at
PushStep ==
    /\ pc = "push"
    /\ peer' = peer
    /\ pc' # "aborted"

SuccessfulCreates(cs) ==
    {k \in DOMAIN cs : cs[k].op = "create" /\ cs[k].ok /\ cs[k].kind = "push"}

\* a process whose snapshot lacks the entry issues a create, whatever the
\* remote service holds by then
StaleSnapshotCreates ==
    (PushStep /\ ~InSnapshot(cfg.PushMonitors[idx]))
        => /\ Len(calls') = Len(calls) + 1
           /\ calls'[Len(calls')].op = "create"
           /\ calls'[Len(calls')].name = cfg.PushMonitors[idx].Name
           /\ calls'[Len(calls')].ok => Len(remote') = Len(remote) + 1

\* two successful creates of the two processes left two remote entities
TwoEntitiesLeft ==
    \A k \in SuccessfulCreates(calls), l \in SuccessfulCreates(peer.calls) :
        /\ calls[k].id # peer.calls[l].id
        /\ remote[calls[k].id].Name = calls[k].name
        /\ remote[peer.calls[l].id].Name = peer.calls[l].name
        /\ remote[calls[k].id].Parent = calls[k].parent
        /\ remote[peer.calls[l].id].Parent = peer.calls[l].parent

\* C31: when two runs execute concurrently and both took their snapshot
\* before either created a declared monitor, both decide "no match" and both
\* issue a create, which leaves two remote entities with that identity; no
\* lock and no check before the create prevents it
ConcurrentRunsDuplicate ==
    /\ []TwoEntitiesLeft
    /\ [][StaleSnapshotCreates]_vars

\* both processes created the monitor their one entry declares, and the
\* remote service holds the two under one name and one parent
ConcurrentDuplicateSeen ==
    /\ Len(disk.base.PushMonitors) = 1
    /\ \E k \in SuccessfulCreates(calls), l \in SuccessfulCreates(peer.calls) :
          /\ calls[k].src = <<"push", 1>> /\ peer.calls[l].src = <<"push", 1>>
          /\ calls[k].name = peer.calls[l].name
          /\ calls[k].parent = peer.calls[l].parent
          /\ calls[k].id # peer.calls[l].id
          /\ remote[calls[k].id].Name = remote[peer.calls[l].id].Name
          /\ remote[calls[k].id].Parent = remote[peer.calls[l].id].Parent
          /\ remote[calls[k].id].Kind = "push"
          /\ remote[peer.calls[l].id].Kind = "push"

-----------------------------------------------------------------------------
(* Distinct monitors through the merge (C32)                               *)

\* the file MergeStep is about to merge
AtFragment == pc = "merge" /\ idx <= Len(disk.frags)

\* entry j of list add has a (name, group) pair that no entry accumulated so
\* far has: none of the merged list, none of the entries before it
DistinctPair(acc, add, j) ==
    /\ \A i \in DOMAIN acc : MonitorIdent(acc[i]) # MonitorIdent(add[j])
    /\ \A i \in 1..(j - 1) : MonitorIdent(add[i]) # MonitorIdent(add[j])

DistinctAppended(acc, add, merged) ==
    \A j \in DOMAIN add :
        DistinctPair(acc, add, j) => \E k \in DOMAIN merged : merged[k] = add[j]

\* C32: a push or http monitor of a later fragment whose (name, group) pair
\* differs from the pair of every entry already accumulated is always appended
\* to the merged list, also when a name or a group name contains "|"
NoDistinctMonitorDropped ==
    [][AtFragment =>
          /\ DistinctAppended(cfg.PushMonitors, disk.frags[idx].PushMonitors,
                              cfg'.PushMonitors)
          /\ DistinctAppended(cfg.HTTPMonitors, disk.frags[idx].HTTPMonitors,
                              cfg'.HTTPMonitors)]_vars

HasSeparator(s) == \E k \in DOMAIN s : s[k] = "|"

\* no name and no group name of the directory contains "|"
PlainNames ==
    \A f \in DOMAIN Files :
        \A m \in Range(Files[f].PushMonitors) \cup Range(Files[f].HTTPMonitors) :
            ~HasSeparator(m.Name) /\ ~HasSeparator(m.Group)

\* without "|" in names and group names every distinct pair is appended
NoDistinctPlainMonitorDropped ==
    [][(AtFragment /\ PlainNames) =>
          /\ DistinctAppended(cfg.PushMonitors, disk.frags[idx].PushMonitors,
                              cfg'.PushMonitors)
          /\ DistinctAppended(cfg.HTTPMonitors, disk.frags[idx].HTTPMonitors,
                              cfg'.HTTPMonitors)]_vars

-----------------------------------------------------------------------------
(* Values the user has set (C33)                                           *)

\* entry after holds every value of entry before that was set
SetValuesKept(before, after) ==
    /\ before.Metric # <<>> => after.Metric = before.Metric
    /\ before.Field # "" => after.Field = before.Field
    /\ before.Filesystem # <<>> => after.Filesystem = before.Filesystem
    /\ before.Threshold # 0 => after.Threshold = before.Threshold

ListValuesKept(before, after) ==
    /\ Len(after) = Len(before)
    /\ \A i \in DOMAIN before : SetValuesKept(before[i], after[i])

\* C33: for every monitor entry, each of metric kind, field, filesystem and
\* threshold that is set before a resolution has the same value after it
UserValuesKept ==
    [][(pc = "resolve" /\ idx' = idx + 1) =>
          /\ ListValuesKept(cfg.PushMonitors, cfg'.PushMonitors)
          /\ ListValuesKept(cfg.HTTPMonitors, cfg'.HTTPMonitors)
          /\ ListValuesKept(cfg.Monitors, cfg'.Monitors)]_vars

\* a disk monitor named by its mount point that came with a field, a
\* filesystem and a threshold of its own: the resolver filled the kind only
UserValuesSeen ==
    /\ pc = "resolve" /\ idx >= 1
    /\ \E list \in {"push", "legacy"} :
          /\ Len(ListOf(disk.base, list)) = 1
          /\ LET before == ListOf(disk.base, list)[1]
                 after == ListOf(cfg, list)[1]
             IN  /\ before.Metric = <<>>
                 /\ before.Field = "usage_idle"
                 /\ before.Filesystem = <<"/","v","a","r">>
                 /\ before.Threshold = 50
                 /\ Contains(ToLower(before.Name), <<"r","o","o","t">>)
                 /\ after.Metric = MetricDisk
                 /\ after.Field = "usage_idle"
                 /\ after.Filesystem = <<"/","v","a","r">>
                 /\ after.Threshold = 50

-----------------------------------------------------------------------------
(* Runs over a group and a push monitor that name notifications, against   *)
(* remote notification lists that hold some of the names, all or none      *)

NotificationLists ==
    {<<>>,
     <<[Name |-> "n1", ID |-> 1], [Name |-> "n2", ID |-> 2]>>,
     <<[Name |-> "n1", ID |-> 1], [Name |-> "n1", ID |-> 3]>>}

NameLists == {<<>>, <<"nx">>, <<"n2", "nx", "n1">>, <<"n1", "n1">>}

NotifyConfigs ==
    {BaseConfig(<<GroupEntry(NameG, NilStr, gn)>>,
                <<PushEntry(NameCPU, NameG, NilStr, mn, <<>>)>>, <<>>, <<>>, 0) :
        gn \in NameLists, mn \in NameLists}

InitNotify ==
    /\ \E c \in NotifyConfigs :
          disk = [base |-> c, frags |-> <<>>]
    /\ notifications \in NotificationLists
    /\ remote = <<>>
    /\ emptyIDsNil \in BOOLEAN
    /\ cfg = EmptyConfig
    /\ pc = "idle"
    /\ idx = 1
    /\ existingByName = <<>>
    /\ existingByNameAndGroup = <<>>
    /\ groupNameToID = <<>>
    /\ configUpdated = FALSE
    /\ calls = <<>>
    /\ steps = NoSteps
    /\ runs = 0
    /\ fails = 0
    /\ prev = [outcome |-> "none", created |-> {}, remote |-> remote]
    /\ telegrafDir = <<>>
    /\ derive = NoDerive
    /\ peer = NoPeer
    /\ err = NoError

NextNotify ==
    \/ Start
    \/ GroupUpdate
    \/ GroupCreate
    \/ PushUpdate
    \/ PushCreate
    \/ Save
    \/ Abort

SpecNotify == InitNotify /\ [][NextNotify]_vars

-----------------------------------------------------------------------------
(* Notification name resolution (C34)                                      *)

Known(name) == name \in {notifications[i].Name : i \in DOMAIN notifications}

\* the id the remote list gives a name: the one of its last notification of
\* that name
IDOfName(name) ==
    LET at == {i \in DOMAIN notifications : notifications[i].Name = name}
    IN  notifications[CHOOSE i \in at : \A j \in at : j <= i].ID

\* the ids of the names that exist remotely, in the order of the names
RECURSIVE KnownIDs(_)
KnownIDs(names) ==
    IF names = <<>> THEN <<>>
    ELSE (IF Known(Head(names)) THEN <<IDOfName(Head(names))>> ELSE <<>>)
         \o KnownIDs(Tail(names))

DeclaredNames(src) == ListOf(disk.base, src[1])[src[2]].NotificationNames

\* what a successful create sent as notification ids is what the remote
\* list knows of the names the entry declares
CreatedWithKnownIDs ==
    \A k \in DOMAIN calls :
        (calls[k].op = "create" /\ calls[k].ok) =>
            remote[calls[k].id].NotificationIDs = KnownIDs(DeclaredNames(calls[k].src))

\* the run is at a group or a monitor that names a notification the remote
\* list does not hold
AtUnknownNotification ==
    /\ pc \in {"groups", "push"}
    /\ \E n \in Range(ListOf(cfg, pc)[idx].NotificationNames) : ~Known(n)

\* such an entry is reconciled like any other: unless a remote call fails,
\* the run goes on to the next entry
UnknownNotificationStep ==
    (AtUnknownNotification /\ fails' = fails /\ pc' # "aborted")
        => /\ pc' # "failed"
           /\ err' = err
           /\ <<pc', idx'>> = After(cfg, pc, idx)

\* C34: resolution returns the ids of exactly the names that exist remotely,
\* in the order of the input names, drops every name not found and returns no
\* error: an unknown notification name never aborts the reconciliation of a
\* group or monitor
NotificationResolutionNeverFails ==
    /\ []CreatedWithKnownIDs
    /\ [][UnknownNotificationStep]_vars

\* a group that names n2, an unknown name and n1 was created with the ids of
\* n2 and n1, and the run went on to create the monitor and ended
UnknownNotificationSeen ==
    /\ pc = "done"
    /\ disk.base.Groups[1].NotificationNames = <<"n2", "nx", "n1">>
    /\ Known("n1") /\ Known("n2") /\ ~Known("nx")
    /\ \E k, l \in DOMAIN calls :
          /\ calls[k].op = "create" /\ calls[k].ok /\ calls[k].src = <<"groups", 1>>
          /\ remote[calls[k].id].NotificationIDs = <<2, 1>>
          /\ calls[l].op = "create" /\ calls[l].ok /\ calls[l].src = <<"push", 1>>

-----------------------------------------------------------------------------
(* Drop-in eligibility (C35)                                               *)

\* push-list entries with and without a metric kind, with and without a token
DropInEntries ==
    {TelegrafEntry(NameCPU, NameG, MetricCPU, <<>>, TokenA),
     TelegrafEntry(<<"d","a","t","a">>, NameG, MetricDisk, FsData, TokenA),
     TelegrafEntry(<<"d","o","c","k">>, <<>>, MetricDockerCPU, <<>>, TokenA),
     TelegrafEntry(<<"r","a","m">>, <<>>, MetricMem, <<>>, <<>>),
     TelegrafEntry(NameH, <<>>, <<>>, <<>>, TokenB)}

InitDropIn ==
    /\ \E ms \in SeqsUpTo(DropInEntries, MaxMonitors), s \in TelegrafSettings :
          /\ cfg = [EmptyConfig EXCEPT
                       !.Agent.UseOutputsDiscard = s.discard,
                       !.PushMonitors = ms,
                       !.HTTPMonitors = s.http,
                       !.Monitors = s.legacy]
          /\ telegrafDir = s.dir
    /\ disk = [base |-> cfg, frags |-> <<>>]
    /\ pc = "telegraf"
    /\ idx = 1
    /\ remote = <<>>
    /\ emptyIDsNil = FALSE
    /\ existingByName = <<>>
    /\ existingByNameAndGroup = <<>>
    /\ groupNameToID = <<>>
    /\ configUpdated = FALSE
    /\ calls = <<>>
    /\ steps = NoSteps
    /\ runs = 0
    /\ fails = 0
    /\ prev = [outcome |-> "none", created |-> {}, remote |-> remote]
    /\ derive = NoDerive
    /\ peer = NoPeer
    /\ notifications = Notifications
    /\ err = NoError

SpecDropIn == InitDropIn /\ [][NextTelegraf]_vars

\* entries of kind push with a metric kind and a token
PushWithKindAndToken ==
    {m \in Range(GetAllMonitors(cfg)) :
        m.Type = "push" /\ m.Metric # <<>> /\ m.PushToken # <<>>}

\* the files this derivation has rendered from a template
RenderedFrom(template) ==
    {n \in DOMAIN telegrafDir : telegrafDir[n].template = template}

\* every output descriptor is the one of such an entry
OutputsOfEligibleOnly ==
    LET eligible == PushWithKindAndToken IN
    \A n \in RenderedFrom("outputs_exec_push") :
        \E m \in eligible :
            /\ telegrafDir[n].data.MonitorName = m.Name
            /\ telegrafDir[n].data.Token = m.PushToken
            /\ telegrafDir[n].data.Metric = m.Metric
            /\ n = OutputFile(m.Name)

\* every input descriptor is of a kind such an entry has
InputsOfEligibleOnly ==
    LET kinds == {m.Metric : m \in PushWithKindAndToken}
        rendered == {telegrafDir[n].template : n \in DOMAIN telegrafDir}
    IN  /\ "inputs_cpu" \in rendered => MetricCPU \in kinds
        /\ "inputs_mem" \in rendered => MetricMem \in kinds
        /\ "inputs_docker" \in rendered =>
              \E k \in kinds : Contains(ToLower(k), NameDocker)
        /\ "inputs_disk" \in rendered => MetricDisk \in kinds

\* the kinds counted as needed are kinds of such entries
NeededOfEligibleOnly ==
    LET eligible == PushWithKindAndToken IN
    /\ derive.neededMetrics \subseteq {m.Metric : m \in eligible}
    /\ \A k \in DOMAIN derive.monitorByMetric :
          \A i \in DOMAIN derive.monitorByMetric[k] :
              \E m \in eligible :
                  /\ m.Metric = k
                  /\ m.Name = derive.monitorByMetric[k][i].Name
                  /\ m.PushToken = derive.monitorByMetric[k][i].Token

\* C35: the derivation produces an output descriptor, and counts a metric
\* kind as needed, only for entries of kind push that have a metric kind and a
\* token; http monitors, unmapped monitors and push monitors without a token
\* contribute no output file and no input kind
DropInEligibility ==
    OutputsOfEligibleOnly /\ InputsOfEligibleOnly /\ NeededOfEligibleOnly

\* a derivation ended over an http monitor with a cpu kind and a token, an
\* unmapped legacy entry with a token and a mem monitor without a token: one
\* output was written, for the disk monitor, and no cpu or mem input
DropInEligibilitySeen ==
    /\ pc = "generated"
    /\ \E m \in Range(cfg.HTTPMonitors) : m.Metric = MetricCPU /\ m.PushToken # <<>>
    /\ \E m \in Range(cfg.Monitors) :
          m.Type = "push" /\ m.Metric = <<>> /\ m.PushToken # <<>>
    /\ \E m \in Range(cfg.PushMonitors) : m.Metric = MetricMem /\ m.PushToken = <<>>
    /\ Cardinality(PushWithKindAndToken) = 1
    /\ Cardinality(RenderedFrom("outputs_exec_push")) = 1
    /\ RenderedFrom("inputs_disk") # {}
    /\ InputFile(MetricCPU) \notin DOMAIN telegrafDir
    /\ InputFile(MetricMem) \notin DOMAIN telegrafDir
    /\ OutputFile(NameWeb) \notin DOMAIN telegrafDir

-----------------------------------------------------------------------------
(* Reproducible derivation (C36)                                           *)

\* the directory the output loop leaves when the map is ranged in an order
DirAfterOutputs(order) ==
    WriteAll(telegrafDir, OutputWrites(cfg, derive.monitorByMetric, order, 1), 1)

\* the output loop runs to its end
OutputsDone == pc = "outputs" /\ pc' = "generated"

\* C36: two derivations from the same reconciled monitor set into directories
\* of the same content end with the same files of the same contents, whatever
\* the order in which the metric kinds are iterated, also when two eligible
\* monitors of different kinds map to one output file name
ReproducibleDerivation ==
    [][OutputsDone =>
          \A order \in RangeOrders(DOMAIN derive.monitorByMetric) :
              telegrafDir' = DirAfterOutputs(order)]_vars

\* no two eligible monitors of different kinds share an output file name
NoSharedOutputName ==
    \A k1, k2 \in DOMAIN derive.monitorByMetric :
        k1 # k2 =>
            \A i \in DOMAIN derive.monitorByMetric[k1],
               j \in DOMAIN derive.monitorByMetric[k2] :
                OutputFile(derive.monitorByMetric[k1][i].Name)
                    # OutputFile(derive.monitorByMetric[k2][j].Name)

\* the order of the kinds matters for shared output names only
ReproducibleWithoutSharedNames ==
    [][(OutputsDone /\ NoSharedOutputName) =>
          \A order \in RangeOrders(DOMAIN derive.monitorByMetric) :
              telegrafDir' = DirAfterOutputs(order)]_vars

-----------------------------------------------------------------------------
(* What the group lookup yields (C37)                                      *)

\* every id of the group mapping is the id of the remote group of that name
GroupIDsAreGroups ==
    \A n \in DOMAIN groupNameToID :
        /\ remote[groupNameToID[n]].Kind = "group"
        /\ remote[groupNameToID[n]].Name = n

\* a group update is sent to groups only
GroupUpdatesToGroups ==
    \A k \in DOMAIN calls :
        (calls[k].op = "update" /\ calls[k].kind = "group") => calls[k].was.Kind = "group"

\* the parent a monitor is created under is a group
ParentsAreGroups ==
    \A k \in DOMAIN calls :
        (calls[k].op = "create" /\ calls[k].parent # 0) =>
            remote[calls[k].parent].Kind = "group"

\* C37: every id recorded in the group name-to-id mapping is the id of the
\* remote group of that name; a remote monitor that is not a group and has
\* the name of a declared group is never taken as that group, never sent a
\* group update, and its id is never the parent or the match key of others
GroupLookupYieldsGroups ==
    GroupIDsAreGroups /\ GroupUpdatesToGroups /\ ParentsAreGroups

\* no remote monitor other than a group has the name of a declared group
NoMonitorNamedAsGroup ==
    \A id \in DOMAIN remote :
        remote[id].Kind # "group" =>
            \A f \in DOMAIN Files : \A g \in Range(Files[f].Groups) :
                g.Name # remote[id].Name

\* as long as no such monitor exists the lookup yields groups
GroupLookupWithoutCollision ==
    NoMonitorNamedAsGroup => GroupLookupYieldsGroups

-----------------------------------------------------------------------------
(* Runs over a directory that holds fragments: the base file declares a    *)
(* group, a push monitor and a legacy entry; the fragments repeat some of  *)
(* them and add others                                                     *)

ReloadBase(push) ==
    BaseConfig(<<GroupEntry(NameG, NilStr, <<>>)>>, push, <<>>,
               <<LegacyEntry("push", NameLeg, NilStr, "", <<>>)>>, 0)

ReloadFragments ==
    <<BaseConfig(<<GroupEntry(NameG, Ptr("d1"), <<>>)>>,
                 <<PushEntry(NameCPU, NameG, Ptr("d1"), <<>>, <<>>),
                   PushEntry(NameCPU, <<>>, NilStr, <<>>, <<>>)>>,
                 <<HTTPEntry(NameWeb, NameG, NilStr, "http://web")>>,
                 <<LegacyEntry("push", NameLeg, Ptr("d1"), "", <<>>)>>, 0),
      BaseConfig(<<>>,
                 <<PushEntry(NameCPU, <<>>, Ptr("d1"), <<>>, TokenA)>>,
                 <<HTTPEntry(NameWeb, NameG, Ptr("d1"), "http://web")>>,
                 <<>>, 0)>>

ReloadRemote ==
    <<RemoteGroupG, Entity(NameCPU, "push", 1, NilStr, <<>>, TokenB),
      Entity(NameWeb, "http", 1, NilStr, <<>>, <<>>),
      Entity(NameLeg, "push", 1, NilStr, <<>>, TokenA)>>

\* the directory and the server state a run starts from
ReloadStarts ==
    {<<[base |-> ReloadBase(<<PushEntry(NameCPU, NameG, NilStr, <<>>, <<>>)>>),
        frags |-> SubSeq(ReloadFragments, 1, 1)], <<>>>>,
     <<[base |-> ReloadBase(<<PushEntry(NameCPU, NameG, NilStr, <<>>, <<>>),
                              PushEntry(NameCPU, NameG, Ptr("d1"), <<>>, <<>>)>>),
        frags |-> SubSeq(ReloadFragments, 1, 1)], ReloadRemote>>,
     <<[base |-> ReloadBase(<<>>), frags |-> ReloadFragments], ReloadRemote>>}

InitReload ==
    /\ \E s \in ReloadStarts :
          /\ disk = s[1]
          /\ remote = s[2]
    /\ emptyIDsNil \in BOOLEAN
    /\ cfg = EmptyConfig
    /\ pc = "idle"
    /\ idx = 1
    /\ existingByName = <<>>
    /\ existingByNameAndGroup = <<>>
    /\ groupNameToID = <<>>
    /\ configUpdated = FALSE
    /\ calls = <<>>
    /\ steps = NoSteps
    /\ runs = 0
    /\ fails = 0
    /\ prev = [outcome |-> "none", created |-> {}, remote |-> remote]
    /\ telegrafDir = <<>>
    /\ derive = NoDerive
    /\ peer = NoPeer
    /\ notifications = Notifications
    /\ err = NoError

SpecReload == InitReload /\ [][Next]_vars

-----------------------------------------------------------------------------
(* Persist, then reload (C38)                                              *)

\* the save of this step has written the base file
BaseWritten == pc = "save" /\ pc' = "done" /\ SaveNeeded /\ fails' = fails

SameLists(a, b) ==
    /\ a.Groups = b.Groups
    /\ a.PushMonitors = b.PushMonitors
    /\ a.HTTPMonitors = b.HTTPMonitors
    /\ a.Monitors = b.Monitors

\* C38: after a run has written the merged, deduplicated configuration to
\* the base file, loading again from the same directory yields group and
\* monitor lists equal to the persisted ones: the fragments add no entry, no
\* list grows, and each entry keeps the token that was persisted
PersistThenReload ==
    [][BaseWritten =>
          /\ disk'.frags = disk.frags
          /\ SameLists(disk'.base, cfg')
          /\ SameLists(LoadMergedConfig(disk'), disk'.base)]_vars

\* a run has rewritten the base file with entries of the fragments and with
\* the tokens it read, the fragments are as they were, and a reload adds
\* nothing to the lists
PersistThenReloadSeen ==
    /\ pc = "done"
    /\ disk.frags # <<>>
    /\ Len(disk.base.PushMonitors) = 2
    /\ Len(disk.base.HTTPMonitors) = 1
    /\ \A i \in DOMAIN disk.base.PushMonitors : disk.base.PushMonitors[i].PushToken # <<>>
    /\ disk.base.Monitors[1].PushToken # <<>>
    /\ \E i \in DOMAIN disk.frags[1].PushMonitors :
          disk.frags[1].PushMonitors[i].PushToken = <<>>
    /\ SameLists(LoadMergedConfig(disk), disk.base)

-----------------------------------------------------------------------------
(* The push-metric command over the generated outputs (C39)                *)

\* pushMetricCmd: the threshold and the field the command takes from the
\* loaded configuration for a monitor name: those of the first entry of the
\* legacy list of kind push with that name; the threshold is 90 unless that
\* entry has a positive one, and the command aborts when no field was found
PushMetricLookup(c, monitorName) ==
    LET hits == {i \in DOMAIN c.Monitors :
                    c.Monitors[i].Type = "push" /\ c.Monitors[i].Name = monitorName}
        first == CHOOSE i \in hits : \A j \in hits : i <= j
        threshold == IF hits # {} /\ c.Monitors[first].Threshold > 0
                     THEN c.Monitors[first].Threshold
                     ELSE 90
        expectedField == IF hits # {} THEN c.Monitors[first].Field ELSE ""
    IN  [fatal |-> expectedField = "",
         threshold |-> threshold,
         expectedField |-> expectedField]

\* C39: for every output descriptor the derivation emits for a monitor, the
\* push-metric command invoked with that monitor's name finds the monitor in
\* the loaded configuration and uses its field and threshold, also when the
\* monitor is declared in the push-monitor list; it does not abort for want
\* of a field
OutputsResolvableByPushMetric ==
    \A n \in RenderedFrom("outputs_exec_push") :
        LET data == telegrafDir[n].data
            used == PushMetricLookup(LoadMergedConfig(disk), data.MonitorName)
        IN  /\ ~used.fatal
            /\ used.expectedField = data.Field
            /\ used.threshold = data.Threshold

=============================================================================
